---- MODULE Spec2Model ----
(***************************************************************************)
(* Model of the cost / utilization calculation layer of project-planner    *)
(* (src/src/lib/storage.ts, src/src/app/page.tsx,                          *)
(* src/src/app/projects/[id]/page.tsx).                                    *)
(*                                                                         *)
(* Numbers.  A JavaScript number is modelled as a record                   *)
(*   [k |-> "fin", n |-> numerator, d |-> denominator > 0]   (reduced)     *)
(*   [k |-> "nan", ...]   NaN                                              *)
(*   [k |-> "inf", n |-> 1 or -1, ...]   +Infinity / -Infinity             *)
(* Finite values are exact rationals: the rounding of IEEE-754 doubles and *)
(* the sign of zero are not modelled.                                      *)
(*                                                                         *)
(* Raw values.  A field read from a JSON / form value that need not be a   *)
(* number is a JS number as above, or undefined ("undef"), null ("null")   *)
(* or a non-numeric string ("str").                                        *)
(*                                                                         *)
(* Strings.  A YYYY-MM string is the sequence of its character codes       *)
(* ("0" = 48 .. "9" = 57, "-" = 45), compared as JavaScript compares       *)
(* strings.                                                                *)
(***************************************************************************)
EXTENDS Integers, Sequences, FiniteSets, TLC

VARIABLES
    pc,          \* "input" before a function is applied, "done" after
    person,      \* SpecRate: the RosterPerson handed to effectiveHourlyRate
    rate,        \* SpecRate: result of effectiveHourlyRate / effectiveMonthlyComp
    people,      \* SpecMonth: the people argument of computeMonthStats
    month,       \* SpecMonth: the MonthRow argument
    overheadPerHour, \* SpecMonth: the overheadPerHour argument
    stats,       \* SpecMonth: result of computeMonthStats
    roster,      \* SpecTotals / SpecRollup: the roster snapshot
    project,     \* SpecTotals: the project handed to computeProjectTotals
    totals,      \* SpecTotals / SpecRollup: result(s) of computeProjectTotals
    projects,    \* SpecRollup: the project list
    filter,      \* SpecRollup: [startYm, endYm] date filter ("" = absent)
    rollup,      \* SpecRollup: result of buildCalendarRollupFiltered
    projRollup,  \* SpecRollup: result of buildProjectRollup of one project
    ymStart,     \* SpecYm: the startMonthISO handed to ymFromStartIndex
    ymIndex,     \* SpecYm: the month index
    ymResult,    \* SpecYm: result of ymFromStartIndex
    bucketYm,    \* SpecYm: the ym calendarRollup computes for the same month
    selectedPeople,\* SpecUtil: the people filter of the resourcing page (NoSelection or a set of ids)
    heat,        \* SpecUtil: result of buildUtilizationMatrixWithProjects
    deptHeat,    \* SpecUtil: result of buildDepartmentUtilizationMatrix
    globalHours, \* SpecUtil: globalHoursByPersonYm of the project detail page
    showAddModal,\* SpecPage: whether the Add Personnel modal is open
    tempSelected,\* SpecPage: the ids ticked in the Add Personnel modal
    call,        \* SpecPage: the handler that ran last, with its personId argument
    db,          \* SpecApi: the rows of the database, by table
    request,     \* SpecApi: the request handled last
    response,    \* SpecApi: the response to it
    hydrated,    \* SpecSave: whether the page has loaded its projects and roster
    effectDue,   \* SpecSave: a render with a new projects list is committed and its save effect has not run yet
    saveTimer,   \* SpecSave: saveTimer.current, the timer set last ({} is null)
    timers,      \* SpecSave: the timeouts the browser still has to fire, each by the project it saves
    upserted,    \* SpecSave: the project repo.upsertProject was called with last ({} before the first call)
    weekState,   \* SpecTodoPage: the rows of the week by project id
    order,       \* SpecTodoPage: the order of the projects on the To-Do page
    sent,        \* SpecTodoPage: the payload of the last PUT /api/todo the page sent ({} before the first)
    prevWeek,    \* SpecCopy: the rows of the previous week by project id, as GET /api/todo returns them
    selectedDepartments\* SpecFilter: the department filter of the resourcing page

vars == <<pc, person, rate, people, month, overheadPerHour, stats,
          roster, project, totals, projects, filter, rollup, projRollup,
          ymStart, ymIndex, ymResult, bucketYm,
          selectedPeople, heat, deptHeat, globalHours,
          showAddModal, tempSelected, call,
          db, request, response,
          hydrated, effectDue, saveTimer, timers, upserted,
          weekState, order, sent,
          prevWeek,
          selectedDepartments>>

(***************************************************************************)
(* JavaScript numbers                                                      *)
(***************************************************************************)
Abs(x) == IF x < 0 THEN -x ELSE x

Sign(x) == IF x < 0 THEN -1 ELSE IF x > 0 THEN 1 ELSE 0

RECURSIVE GCD(_, _)
GCD(a, b) == IF b = 0 THEN a ELSE GCD(b, a % b)

\* the finite number n/d (d # 0), reduced, with a positive denominator
Fin(n, d) ==
    LET s == IF d < 0 THEN -1 ELSE 1
        g == GCD(Abs(n), Abs(d))
    IN  [k |-> "fin", n |-> (s * n) \div g, d |-> Abs(d) \div g]

Int2Num(i) == [k |-> "fin", n |-> i, d |-> 1]

NaN == [k |-> "nan", n |-> 0, d |-> 1]

Inf(s) == [k |-> "inf", n |-> s, d |-> 1]

Undef == [k |-> "undef", n |-> 0, d |-> 1]

Null == [k |-> "null", n |-> 0, d |-> 1]

NonNumeric == [k |-> "str", n |-> 0, d |-> 1]

Zero == Int2Num(0)

IsFin(x) == x.k = "fin"

\* x + y
JAdd(x, y) ==
    IF x.k = "nan" \/ y.k = "nan" THEN NaN
    ELSE IF x.k = "inf" /\ y.k = "inf" THEN (IF x.n = y.n THEN x ELSE NaN)
    ELSE IF x.k = "inf" THEN x
    ELSE IF y.k = "inf" THEN y
    ELSE Fin(x.n * y.d + y.n * x.d, x.d * y.d)

\* -x
JNeg(x) ==
    IF x.k = "nan" THEN NaN
    ELSE IF x.k = "inf" THEN Inf(-x.n)
    ELSE Fin(-x.n, x.d)

\* x - y
JSub(x, y) == JAdd(x, JNeg(y))

\* x * y
JMul(x, y) ==
    IF x.k = "nan" \/ y.k = "nan" THEN NaN
    ELSE IF x.k = "inf" \/ y.k = "inf"
         THEN (IF Sign(x.n) * Sign(y.n) = 0 THEN NaN
               ELSE Inf(Sign(x.n) * Sign(y.n)))
    ELSE Fin(x.n * y.n, x.d * y.d)

\* x / y
JDiv(x, y) ==
    IF x.k = "nan" \/ y.k = "nan" THEN NaN
    ELSE IF x.k = "inf" /\ y.k = "inf" THEN NaN
    ELSE IF x.k = "inf" THEN Inf(IF y.n < 0 THEN -x.n ELSE x.n)
    ELSE IF y.k = "inf" THEN Zero
    ELSE IF y.n = 0 THEN (IF x.n = 0 THEN NaN ELSE Inf(Sign(x.n)))
    ELSE Fin(x.n * y.d, x.d * y.n)

\* x < y ; false when either side is NaN
JLt(x, y) ==
    IF x.k = "nan" \/ y.k = "nan" THEN FALSE
    ELSE IF x.k = "inf" THEN (x.n < 0 /\ ~(y.k = "inf" /\ y.n < 0))
    ELSE IF y.k = "inf" THEN y.n > 0
    ELSE x.n * y.d < y.n * x.d

JGt(x, y) == JLt(y, x)

JLe(x, y) == x.k # "nan" /\ y.k # "nan" /\ ~JLt(y, x)

\* Math.max(x, y)
JMax(x, y) ==
    IF x.k = "nan" \/ y.k = "nan" THEN NaN
    ELSE IF JLt(x, y) THEN y ELSE x

\* Math.min(x, y)
JMin(x, y) ==
    IF x.k = "nan" \/ y.k = "nan" THEN NaN
    ELSE IF JLt(y, x) THEN y ELSE x

\* Number(v) for a raw value
Number(v) ==
    IF v.k \in {"fin", "nan", "inf"} THEN v
    ELSE IF v.k = "null" THEN Zero
    ELSE NaN

(***************************************************************************)
(* storage.ts : small helpers                                              *)
(***************************************************************************)
toNumber(v, fb) == IF IsFin(Number(v)) THEN Number(v) ELSE fb

clamp(n, min, max) == JMax(min, JMin(max, n))

isFullTimeLike(t) == t = "Full-Time" \/ t = "FT Resource"

PersonTypes == {"Full-Time", "FT Resource", "Part-Time", "PT Resource", "Contractor"}

(***************************************************************************)
(* storage.ts : compensation                                               *)
(***************************************************************************)
effectiveMonthlyComp(p) ==
    IF isFullTimeLike(p.personType)
    THEN LET mode == IF p.compMode = "undef" THEN "monthly" ELSE p.compMode
             monthly == IF mode = "annual"
                        THEN JDiv(toNumber(p.annualSalary, Zero), Int2Num(12))
                        ELSE toNumber(p.monthlySalary, Zero)
         IN  JMax(Zero, monthly)
    ELSE Zero

\* mutant: the divisor is not floored at 1
effectiveHourlyRate_NoDivisorFloor(p) ==
    IF isFullTimeLike(p.personType)
    THEN JDiv(effectiveMonthlyComp(p), toNumber(p.baseMonthlyHours, Int2Num(160)))
    ELSE toNumber(p.hourlyRate, Zero)

effectiveHourlyRate(p) ==
    IF isFullTimeLike(p.personType)
    THEN LET monthly == effectiveMonthlyComp(p)
             base == JMax(Int2Num(1), toNumber(p.baseMonthlyHours, Int2Num(160)))
         IN  JDiv(monthly, base)
    ELSE toNumber(p.hourlyRate, Zero)

(***************************************************************************)
(* storage.ts : computeMonthStats                                          *)
(* people is a sequence of RosterPerson records; personAllocations is a    *)
(* function from person ids to raw values.                                 *)
(***************************************************************************)
Min(S) == CHOOSE x \in S : \A y \in S : x <= y

\* people.find((x) => x.id === pid): index of the first match, 0 if none
FindPerson(ps, pid) ==
    IF \E i \in 1..Len(ps) : ps[i].id = pid
    THEN Min({i \in 1..Len(ps) : ps[i].id = pid})
    ELSE 0

\* mutant: an entry whose person is absent is not skipped; its fields are
\* read from undefined
RECURSIVE MonthLoop_NoSkip(_, _, _, _)
MonthLoop_NoSkip(ps, allocs, todo, acc) ==
    IF todo = {} THEN acc
    ELSE LET pid == Min(todo)
             i == FindPerson(ps, pid)
             h == IF i = 0 THEN NaN
                  ELSE JDiv(JMul(toNumber(ps[i].baseMonthlyHours, Zero),
                                 toNumber(allocs[pid], Zero)), Int2Num(100))
             r == IF i = 0 THEN NaN ELSE effectiveHourlyRate(ps[i])
         IN  MonthLoop_NoSkip(ps, allocs, todo \ {pid},
                 [hours |-> JAdd(acc.hours, h), labor |-> JAdd(acc.labor, JMul(r, h))])

\* mutant: each entry overwrites the running sums instead of adding to them
RECURSIVE MonthLoop_Overwrite(_, _, _, _)
MonthLoop_Overwrite(ps, allocs, todo, acc) ==
    IF todo = {} THEN acc
    ELSE LET pid == Min(todo)
             i == FindPerson(ps, pid)
         IN  IF i = 0 THEN MonthLoop_Overwrite(ps, allocs, todo \ {pid}, acc)
             ELSE LET h == JDiv(JMul(toNumber(ps[i].baseMonthlyHours, Zero),
                                     toNumber(allocs[pid], Zero)), Int2Num(100))
                      r == effectiveHourlyRate(ps[i])
                  IN  MonthLoop_Overwrite(ps, allocs, todo \ {pid},
                          [hours |-> h, labor |-> JMul(r, h)])

\* mutant: the allocation is used as a fraction, not as a percentage
RECURSIVE MonthLoop_NoPercent(_, _, _, _)
MonthLoop_NoPercent(ps, allocs, todo, acc) ==
    IF todo = {} THEN acc
    ELSE LET pid == Min(todo)
             i == FindPerson(ps, pid)
         IN  IF i = 0 THEN MonthLoop_NoPercent(ps, allocs, todo \ {pid}, acc)
             ELSE LET h == JMul(toNumber(ps[i].baseMonthlyHours, Zero),
                                toNumber(allocs[pid], Zero))
                      r == effectiveHourlyRate(ps[i])
                  IN  MonthLoop_NoPercent(ps, allocs, todo \ {pid},
                          [hours |-> JAdd(acc.hours, h),
                           labor |-> JAdd(acc.labor, JMul(r, h))])

\* the for-loop over Object.entries(month.personAllocations); todo is the set
\* of keys not yet visited, acc the running hours and labor
RECURSIVE MonthLoop(_, _, _, _)
MonthLoop(ps, allocs, todo, acc) ==
    IF todo = {} THEN acc
    ELSE LET pid == Min(todo)
             i == FindPerson(ps, pid)
         IN  IF i = 0 THEN MonthLoop(ps, allocs, todo \ {pid}, acc)
             ELSE LET h == JDiv(JMul(toNumber(ps[i].baseMonthlyHours, Zero),
                                     toNumber(allocs[pid], Zero)), Int2Num(100))
                      r == effectiveHourlyRate(ps[i])
                  IN  MonthLoop(ps, allocs, todo \ {pid},
                          [hours |-> JAdd(acc.hours, h),
                           labor |-> JAdd(acc.labor, JMul(r, h))])

computeMonthStats(ps, m, oph) ==
    LET acc == MonthLoop(ps, m.personAllocations, DOMAIN m.personAllocations,
                         [hours |-> Zero, labor |-> Zero])
        overhead == JMul(oph, acc.hours)
        expenses == toNumber(m.expenses, Zero)
        revenue == toNumber(m.revenue, Zero)
        allIn == JAdd(JAdd(acc.labor, overhead), expenses)
    IN  [hours |-> acc.hours, labor |-> acc.labor, overhead |-> overhead,
         expenses |-> expenses, allIn |-> allIn, revenue |-> revenue]

(***************************************************************************)
(* storage.ts : computeProjectTotals                                       *)
(* A project is [id, overheadPerHour, startMonthISO, memberIds, months];   *)
(* memberIds is modelled as the set of its elements (the code only tests   *)
(* membership), months as a sequence of MonthRow records.                  *)
(***************************************************************************)
\* mutant: the roster is not filtered by memberIds
Members_NoFilter(proj, ros) == ros

\* roster.filter((r) => project.memberIds.includes(r.id))
Members(proj, ros) ==
    LET IsMember(r) == r.id \in proj.memberIds IN SelectSeq(ros, IsMember)

ZeroSums == [totalHours |-> Zero, laborCost |-> Zero, overheadCost |-> Zero,
             expenses |-> Zero, revenue |-> Zero]

\* project.months.forEach(...): the sums after the first n months
RECURSIVE TotalsLoop(_, _, _, _)
TotalsLoop(ps, ms, oph, n) ==
    IF n = 0 THEN ZeroSums
    ELSE LET acc == TotalsLoop(ps, ms, oph, n - 1)
             st == computeMonthStats(ps, ms[n], oph)
         IN  [totalHours |-> JAdd(acc.totalHours, st.hours),
              laborCost |-> JAdd(acc.laborCost, st.labor),
              overheadCost |-> JAdd(acc.overheadCost, st.overhead),
              expenses |-> JAdd(acc.expenses, st.expenses),
              revenue |-> JAdd(acc.revenue, st.revenue)]

\* mutant: the margin is computed without the revenue > 0 guard
TotalsOf_NoGuard(sm) ==
    LET allIn == JAdd(JAdd(sm.laborCost, sm.overheadCost), sm.expenses)
        profit == JSub(sm.revenue, allIn)
    IN  [totalHours |-> sm.totalHours, laborCost |-> sm.laborCost,
         overheadCost |-> sm.overheadCost, expenses |-> sm.expenses,
         allIn |-> allIn, revenue |-> sm.revenue, profit |-> profit,
         margin |-> JDiv(profit, sm.revenue)]

\* allIn, profit, margin and the TotalsResult built from the five sums
TotalsOf(sm) ==
    LET allIn == JAdd(JAdd(sm.laborCost, sm.overheadCost), sm.expenses)
        profit == JSub(sm.revenue, allIn)
        margin == IF JGt(sm.revenue, Zero) THEN JDiv(profit, sm.revenue) ELSE Zero
    IN  [totalHours |-> sm.totalHours, laborCost |-> sm.laborCost,
         overheadCost |-> sm.overheadCost, expenses |-> sm.expenses,
         allIn |-> allIn, revenue |-> sm.revenue, profit |-> profit,
         margin |-> margin]

\* mutant: the roster is not restricted to the project's members
computeProjectTotals_NoFilter(proj, ros) ==
    TotalsOf(TotalsLoop(ros, proj.months, proj.overheadPerHour, Len(proj.months)))

computeProjectTotals(proj, ros) ==
    TotalsOf(TotalsLoop(Members(proj, ros), proj.months, proj.overheadPerHour,
                        Len(proj.months)))

(***************************************************************************)
(* page.tsx : calendar helpers.  Strings are sequences of character codes. *)
(***************************************************************************)
\* the decimal digits of n >= 0, as String(n) prints them
RECURSIVE DigitsOf(_)
DigitsOf(n) == IF n < 10 THEN <<48 + n>> ELSE Append(DigitsOf(n \div 10), 48 + (n % 10))

\* Number(s) for a string of decimal digits
RECURSIVE NumberOfDigits(_)
NumberOfDigits(s) ==
    IF s = <<>> THEN 0
    ELSE 10 * NumberOfDigits(SubSeq(s, 1, Len(s) - 1)) + (s[Len(s)] - 48)

\* String(n).padStart(2, "0")
PadStart2(s) == IF Len(s) < 2 THEN <<48>> \o s ELSE s

\* s.split("-"): the parts of s between the "-" characters
RECURSIVE SplitDash(_)
SplitDash(s) ==
    IF \E i \in 1..Len(s) : s[i] = 45
    THEN LET i == Min({j \in 1..Len(s) : s[j] = 45})
         IN  <<SubSeq(s, 1, i - 1)>> \o SplitDash(SubSeq(s, i + 1, Len(s)))
    ELSE <<s>>

\* a < b on strings: comparison by code units, a proper prefix is smaller
RECURSIVE StrLt(_, _)
StrLt(a, b) ==
    IF b = <<>> THEN FALSE
    ELSE IF a = <<>> THEN TRUE
    ELSE IF a[1] # b[1] THEN a[1] < b[1]
    ELSE StrLt(Tail(a), Tail(b))

\* the year new Date(y, ...) takes for the year argument y: an integer from
\* 0 to 99 stands for 1900 + y
DateYear(y) == IF y >= 0 /\ y <= 99 THEN 1900 + y ELSE y

\* mutant: the month wraps around without carrying into the year
ymFromStartIndex_NoCarry(startISO, index) ==
    LET parts == SplitDash(startISO)
        y == NumberOfDigits(parts[1])
        mo == NumberOfDigits(parts[2])
        m0 == (mo - 1 + index) % 12
    IN  DigitsOf(DateYear(y)) \o <<45>> \o PadStart2(DigitsOf(m0 + 1))

\* new Date(y, m - 1 + index, 1) carries the month overflow into the year;
\* the year is printed as it is, the month padded to two digits
ymFromStartIndex(startISO, index) ==
    LET parts == SplitDash(startISO)
        y == NumberOfDigits(parts[1])
        mo == NumberOfDigits(parts[2])
        yy == DateYear(y) + ((mo - 1 + index) \div 12)   \* d.getFullYear()
        m0 == (mo - 1 + index) % 12                      \* d.getMonth()
    IN  DigitsOf(yy) \o <<45>> \o PadStart2(DigitsOf(m0 + 1))

\* storage.ts calendarRollup: the ym of month idx of a project, from
\* pBase = new Date(y, m - 1, 1) and new Date(pBase.getFullYear(),
\* pBase.getMonth() + idx, 1)
calendarRollupYm(startISO, idx) ==
    LET parts == SplitDash(startISO)
        y == NumberOfDigits(parts[1])
        mo == NumberOfDigits(parts[2])
        baseYear == DateYear(y) + ((mo - 1) \div 12)     \* pBase.getFullYear()
        baseMonth == (mo - 1) % 12                       \* pBase.getMonth()
        yy == DateYear(baseYear) + ((baseMonth + idx) \div 12)
        m0 == (baseMonth + idx) % 12
    IN  DigitsOf(yy) \o <<45>> \o PadStart2(DigitsOf(m0 + 1))

\* mutant: the bounds themselves are excluded
inYmRange_Exclusive(ym, start, end) ==
    IF start # <<>> /\ ~StrLt(start, ym) THEN FALSE
    ELSE IF end # <<>> /\ ~StrLt(ym, end) THEN FALSE
    ELSE TRUE

\* the empty string is falsy: an empty bound does not restrict
inYmRange(ym, start, end) ==
    IF start # <<>> /\ StrLt(ym, start) THEN FALSE
    ELSE IF end # <<>> /\ StrLt(end, ym) THEN FALSE
    ELSE TRUE

(***************************************************************************)
(* page.tsx / projects/[id]/page.tsx : rollups                             *)
(* A RollRow is [ym, labor, overhead, expenses, allIn, revenue, hours];    *)
(* its display label is derived from ym alone and is left out.             *)
(***************************************************************************)
\* m.personAllocations[person.id] ?? 0
AllocOrZero(m, pid) ==
    IF pid \in DOMAIN m.personAllocations /\ m.personAllocations[pid].k \notin {"undef", "null"}
    THEN m.personAllocations[pid]
    ELSE Zero

\* the loop "for (const person of members)" over the first n members:
\* the month's hours and labor
RECURSIVE MemberLoop(_, _, _)
MemberLoop(mem, m, n) ==
    IF n = 0 THEN [hours |-> Zero, labor |-> Zero]
    ELSE LET acc == MemberLoop(mem, m, n - 1)
             alloc == toNumber(AllocOrZero(m, mem[n].id), Zero)
         IN  IF JLe(alloc, Zero) THEN acc
             ELSE LET base == toNumber(mem[n].baseMonthlyHours, Zero)
                      hours == JDiv(JMul(base, alloc), Int2Num(100))
                      r == effectiveHourlyRate(mem[n])
                  IN  [hours |-> JAdd(acc.hours, hours),
                       labor |-> JAdd(acc.labor, JMul(hours, r))]

ZeroRow(ym) ==
    [ym |-> ym, labor |-> Zero, overhead |-> Zero, expenses |-> Zero,
     allIn |-> Zero, revenue |-> Zero, hours |-> Zero]

\* the set of the elements of a sequence
SeqRange(q) == {q[j] : j \in 1..Len(q)}

\* index of the row of rows keyed ym, 0 if none (rows.has / rows.get)
RowIndex(rows, ym) ==
    IF \E j \in 1..Len(rows) : rows[j].ym = ym
    THEN CHOOSE j \in 1..Len(rows) : rows[j].ym = ym
    ELSE 0

\* body of the inner loop of buildCalendarRollupFiltered for month i (1-based)
\* of project p; rows is the Map in insertion order
RollupStep(rows, p, i, ros, f) ==
    LET m == p.months[i]
        ym == ymFromStartIndex(p.startMonthISO, i - 1)
    IN  IF ~inYmRange(ym, f.startYm, f.endYm) THEN rows
        ELSE LET rows1 == IF RowIndex(rows, ym) = 0 THEN Append(rows, ZeroRow(ym)) ELSE rows
                 j == RowIndex(rows1, ym)
                 row == rows1[j]
                 mem == Members(p, ros)
                 ml == MemberLoop(mem, m, Len(mem))
                 monthOverhead == JMul(ml.hours, p.overheadPerHour)
                 labor == JAdd(row.labor, ml.labor)
                 overhead == JAdd(row.overhead, monthOverhead)
                 expenses == JAdd(row.expenses, Number(m.expenses))
             IN  [rows1 EXCEPT ![j] =
                    [ym |-> ym,
                     hours |-> JAdd(row.hours, ml.hours),
                     labor |-> labor,
                     overhead |-> overhead,
                     expenses |-> expenses,
                     revenue |-> JAdd(row.revenue, Number(m.revenue)),
                     allIn |-> JAdd(JAdd(labor, overhead), expenses)]]

\* the rows after the first n months of project p, starting from rows0
RECURSIVE RollupMonths(_, _, _, _, _)
RollupMonths(rows0, p, n, ros, f) ==
    IF n = 0 THEN rows0
    ELSE RollupStep(RollupMonths(rows0, p, n - 1, ros, f), p, n, ros, f)

\* the rows after the first k projects
RECURSIVE RollupProjects(_, _, _, _)
RollupProjects(projs, k, ros, f) ==
    IF k = 0 THEN <<>>
    ELSE RollupMonths(RollupProjects(projs, k - 1, ros, f), projs[k],
                      Len(projs[k].months), ros, f)

\* rows.sort((a, b) => (a.ym < b.ym ? -1 : 1)) on rows with distinct ym:
\* insertion of each row before the first row that is not smaller
RECURSIVE SortRows(_)
SortRows(rows) ==
    IF rows = <<>> THEN <<>>
    ELSE LET rest == SortRows(Tail(rows))
             r == rows[1]
             k == Cardinality({j \in 1..Len(rest) : StrLt(rest[j].ym, r.ym)})
         IN  SubSeq(rest, 1, k) \o <<r>> \o SubSeq(rest, k + 1, Len(rest))

\* mutant: the rows are returned in insertion order
buildCalendarRollupFiltered_Unsorted(projs, ros, f) ==
    RollupProjects(projs, Len(projs), ros, f)

buildCalendarRollupFiltered(projs, ros, f) ==
    SortRows(RollupProjects(projs, Len(projs), ros, f))

\* buildProjectRollup: one row per month of the project, in month order
RECURSIVE buildProjectRollup(_, _, _)
buildProjectRollup(p, ros, n) ==
    IF n = 0 THEN <<>>
    ELSE LET m == p.months[n]
             mem == Members(p, ros)
             ml == MemberLoop(mem, m, Len(mem))
             monthOverhead == JMul(ml.hours, p.overheadPerHour)
         IN  Append(buildProjectRollup(p, ros, n - 1),
                    [ym |-> ymFromStartIndex(p.startMonthISO, n - 1),
                     labor |-> ml.labor,
                     overhead |-> monthOverhead,
                     expenses |-> Number(m.expenses),
                     allIn |-> JAdd(JAdd(ml.labor, monthOverhead), Number(m.expenses)),
                     revenue |-> Number(m.revenue),
                     hours |-> ml.hours])

(***************************************************************************)
(* SpecRate : effectiveHourlyRate applied to one RosterPerson              *)
(***************************************************************************)
Idle == <<>>

CompModes == {"monthly", "annual", "undef"}

\* monthlySalary / annualSalary as they can arrive: missing, non-numeric,
\* negative, zero, positive
SalaryVals == {Undef, NonNumeric, Int2Num(-1200), Zero, Int2Num(8000), Int2Num(100000)}

HourlyVals == {Undef, NonNumeric, Null, Int2Num(-5), Zero, Fin(75, 2)}

BaseVals == {Undef, NonNumeric, Null, NaN, Int2Num(-8), Zero, Int2Num(7), Int2Num(160)}

RatePersons ==
    [id : {"p1"}, personType : PersonTypes, compMode : CompModes,
     monthlySalary : SalaryVals, annualSalary : SalaryVals,
     hourlyRate : HourlyVals, baseMonthlyHours : BaseVals]

InitRate ==
    /\ pc = "input"
    /\ person \in RatePersons
    /\ rate = Idle
    /\ people = Idle /\ month = Idle /\ overheadPerHour = Idle /\ stats = Idle
    /\ roster = Idle /\ project = Idle /\ totals = Idle
    /\ projects = Idle /\ filter = Idle /\ rollup = Idle /\ projRollup = Idle
    /\ ymStart = Idle /\ ymIndex = Idle /\ ymResult = Idle /\ bucketYm = Idle
    /\ selectedPeople = Idle /\ heat = Idle /\ deptHeat = Idle /\ globalHours = Idle
    /\ showAddModal = Idle /\ tempSelected = Idle /\ call = Idle
    /\ db = Idle /\ request = Idle /\ response = Idle
    /\ hydrated = Idle /\ effectDue = Idle /\ saveTimer = Idle /\ timers = Idle /\ upserted = Idle
    /\ weekState = Idle /\ order = Idle /\ sent = Idle
    /\ prevWeek = Idle
    /\ selectedDepartments = Idle

CallEffectiveHourlyRate ==
    /\ pc = "input"
    /\ rate' = effectiveHourlyRate(person)
    /\ pc' = "done"
    /\ UNCHANGED <<person, people, month, overheadPerHour, stats, roster,
                   project, totals, projects, filter, rollup, projRollup,
                   ymStart, ymIndex, ymResult, bucketYm,
                   selectedPeople, heat, deptHeat, globalHours,
                   showAddModal, tempSelected, call,
                   db, request, response,
                   hydrated, effectDue, saveTimer, timers, upserted,
                   weekState, order, sent,
                   prevWeek,
                   selectedDepartments>>

NextRate == CallEffectiveHourlyRate

SpecRate == InitRate /\ [][NextRate]_vars

\* x is the finite number num/den (den > 0), stated without the JS operators
IsRatio(x, num, den) == x.k = "fin" /\ x.n * den = num * x.d

\* v read as a number with 0 for anything that is not a finite number
\* (null reads as 0)
Coerce0(v) == IF v.k = "fin" THEN v ELSE Zero

\* C1: effectiveHourlyRate returns a finite number >= 0 for every
\* RosterPerson, of every personType, whatever its compensation fields are.
C1_RateFiniteNonNeg ==
    pc = "done" => (rate.k = "fin" /\ rate.n >= 0)

\* The salaried-like rate max(0, M) / max(1, B) for monthly-equivalent
\* divisor mdiv (1 or 12), salary s and base hours b, both finite.
SalariedRateIs(x, s, mdiv, b) ==
    LET sn == IF s.n > 0 THEN s.n ELSE 0
        bn == IF b.n > b.d THEN b.n ELSE b.d   \* max(1, b) = bn / b.d
    IN  IsRatio(x, sn * b.d, s.d * mdiv * bn)

ClaimedRate(x, p, b) ==
    IF p.personType \in {"Full-Time", "FT Resource"}
    THEN IF p.compMode = "annual"
         THEN SalariedRateIs(x, Coerce0(p.annualSalary), 12, b)
         ELSE SalariedRateIs(x, Coerce0(p.monthlySalary), 1, b)
    ELSE IF p.hourlyRate.k = "fin" THEN x = p.hourlyRate
         ELSE IsRatio(x, 0, 1)

C2_WitnessMissingBase ==
    /\ pc = "done"
    /\ person.personType = "FT Resource" /\ person.compMode = "annual"
    /\ person.annualSalary = Int2Num(100000)
    /\ person.baseMonthlyHours = Undef
    /\ rate = Fin(625, 12)

(***************************************************************************)
(* SpecMonth : computeMonthStats applied to one MonthRow                   *)
(***************************************************************************)
\* number of distinct roster ids (1..MaxPeople); id MaxPeople + 1 is never
\* in the roster
MaxPeople == 2

PersonIds == 1..MaxPeople

AllocIds == 1..(MaxPeople + 1)

\* the compensation profiles a roster person is drawn from
PersonVariants(i) ==
    { [id |-> i, personType |-> "Full-Time", compMode |-> "monthly",
       monthlySalary |-> Int2Num(8000), annualSalary |-> Zero,
       hourlyRate |-> Zero, baseMonthlyHours |-> Int2Num(160)],
      [id |-> i, personType |-> "FT Resource", compMode |-> "annual",
       monthlySalary |-> Undef, annualSalary |-> Int2Num(100000),
       hourlyRate |-> Undef, baseMonthlyHours |-> Undef],
      [id |-> i, personType |-> "Contractor", compMode |-> "undef",
       monthlySalary |-> Zero, annualSalary |-> Zero,
       hourlyRate |-> Fin(75, 2), baseMonthlyHours |-> Int2Num(120)] }

AllPersons == UNION {PersonVariants(i) : i \in PersonIds}

\* sequences of at most MaxPeople persons with pairwise distinct ids
PeopleSeqs ==
    { ps \in UNION {[1..n -> AllPersons] : n \in 0..MaxPeople} :
        \A i, j \in 1..Len(ps) : ps[i].id = ps[j].id => i = j }

AllocVals == {NonNumeric, Int2Num(-50), Int2Num(50)}

AllocMaps == UNION {[S -> AllocVals] : S \in SUBSET AllocIds}

MonthRows ==
    [id : {1}, personAllocations : AllocMaps,
     expenses : {Undef, Zero, Int2Num(1000)}, revenue : {Undef, Int2Num(5000)}]

InitMonth ==
    /\ pc = "input"
    /\ people \in PeopleSeqs
    /\ month \in MonthRows
    /\ overheadPerHour \in {Zero, Int2Num(10)}
    /\ stats = Idle
    /\ person = Idle /\ rate = Idle
    /\ roster = Idle /\ project = Idle /\ totals = Idle
    /\ projects = Idle /\ filter = Idle /\ rollup = Idle /\ projRollup = Idle
    /\ ymStart = Idle /\ ymIndex = Idle /\ ymResult = Idle /\ bucketYm = Idle
    /\ selectedPeople = Idle /\ heat = Idle /\ deptHeat = Idle /\ globalHours = Idle
    /\ showAddModal = Idle /\ tempSelected = Idle /\ call = Idle
    /\ db = Idle /\ request = Idle /\ response = Idle
    /\ hydrated = Idle /\ effectDue = Idle /\ saveTimer = Idle /\ timers = Idle /\ upserted = Idle
    /\ weekState = Idle /\ order = Idle /\ sent = Idle
    /\ prevWeek = Idle
    /\ selectedDepartments = Idle

CallComputeMonthStats ==
    /\ pc = "input"
    /\ stats' = computeMonthStats(people, month, overheadPerHour)
    /\ pc' = "done"
    /\ UNCHANGED <<person, rate, people, month, overheadPerHour, roster,
                   project, totals, projects, filter, rollup, projRollup,
                   ymStart, ymIndex, ymResult, bucketYm,
                   selectedPeople, heat, deptHeat, globalHours,
                   showAddModal, tempSelected, call,
                   db, request, response,
                   hydrated, effectDue, saveTimer, timers, upserted,
                   weekState, order, sent,
                   prevWeek,
                   selectedDepartments>>

NextMonth == CallComputeMonthStats

SpecMonth == InitMonth /\ [][NextMonth]_vars

\* sum of f[i] over the finite set S of integers, on JS numbers
RECURSIVE SumOver(_, _)
SumOver(S, f) ==
    IF S = {} THEN Zero
    ELSE LET i == CHOOSE x \in S : TRUE IN JAdd(f[i], SumOver(S \ {i}, f))

\* hours of person ps[i] in month m: baseMonthlyHours * allocPct / 100,
\* with 0 for a missing or non-numeric factor
PersonHours(ps, m, i) ==
    JDiv(JMul(Coerce0(ps[i].baseMonthlyHours),
              Coerce0(m.personAllocations[ps[i].id])), Int2Num(100))

\* the persons of ps that have an allocation entry in m
Allocated(ps, m) == {i \in 1..Len(ps) : ps[i].id \in DOMAIN m.personAllocations}

\* C3: computeMonthStats returns hours = sum of baseMonthlyHours*allocPct/100
\* over the entries whose person is in people, labor = sum of rate*hours_i,
\* overhead = overheadPerHour*hours, expenses and revenue = the month's
\* values (0 when missing), allIn = labor + overhead + expenses.
C3_MonthStatsFormula ==
    pc = "done" =>
        LET A == Allocated(people, month)
            hrs == [i \in A |-> PersonHours(people, month, i)]
            lab == [i \in A |-> JMul(effectiveHourlyRate(people[i]), hrs[i])]
        IN  /\ stats.hours = SumOver(A, hrs)
            /\ stats.labor = SumOver(A, lab)
            /\ stats.overhead = JMul(overheadPerHour, stats.hours)
            /\ stats.expenses = Coerce0(month.expenses)
            /\ stats.revenue = Coerce0(month.revenue)
            /\ stats.allIn = JAdd(JAdd(stats.labor, stats.overhead), stats.expenses)

\* C3 witness: one person at rate 50 with 160 base hours allocated 50 %,
\* overheadPerHour 10, expenses 0: hours 80, labor 4000, overhead 800,
\* allIn 4800
C3_Witness ==
    /\ pc = "done"
    /\ Len(people) = 1 /\ people[1].baseMonthlyHours = Int2Num(160)
    /\ effectiveHourlyRate(people[1]) = Int2Num(50)
    /\ month.personAllocations = (people[1].id :> Int2Num(50))
    /\ overheadPerHour = Int2Num(10) /\ month.expenses = Zero
    /\ stats.hours = Int2Num(80) /\ stats.labor = Int2Num(4000)
    /\ stats.overhead = Int2Num(800) /\ stats.allIn = Int2Num(4800)

\* the ids of the month's entries that no person of ps carries
Dangling(ps, m) ==
    {pid \in DOMAIN m.personAllocations : \A i \in 1..Len(ps) : ps[i].id # pid}

\* month m without the allocation entries of the ids in D
WithoutEntries(m, D) ==
    [m EXCEPT !.personAllocations =
        [pid \in (DOMAIN m.personAllocations) \ D |-> m.personAllocations[pid]]]

\* C4: a month with an allocation entry for a person id absent from people
\* gives exactly the stats of the same month with that entry removed, and
\* every field of the result is a finite number (nothing was raised).
C4_DanglingSkipped ==
    pc = "done" =>
        /\ \A pid \in Dangling(people, month) :
              stats = computeMonthStats(people, WithoutEntries(month, {pid}),
                                        overheadPerHour)
        /\ \A f \in DOMAIN stats : stats[f].k = "fin"

\* C4 witness: a dangling entry with a non-zero percentage next to an entry
\* of a person in people that contributes hours
C4_Witness ==
    /\ pc = "done"
    /\ \E pid \in Dangling(people, month) :
          month.personAllocations[pid] = Int2Num(50)
    /\ Allocated(people, month) # {}
    /\ stats.hours.n > 0

\* month m restricted to the single allocation entry of pid
OnlyEntry(m, pid) ==
    [m EXCEPT !.personAllocations = (pid :> m.personAllocations[pid])]

\* C5: for distinct persons A and B of people, hours and labor of the month
\* {A: a, B: b} are the sums of the hours, resp. labor, of {A: a} and {B: b}.
C5_Additive ==
    pc = "done" =>
        \A a, b \in DOMAIN month.personAllocations :
            (/\ a # b
             /\ DOMAIN month.personAllocations = {a, b}
             /\ Dangling(people, month) = {})
            => LET sa == computeMonthStats(people, OnlyEntry(month, a), overheadPerHour)
                   sb == computeMonthStats(people, OnlyEntry(month, b), overheadPerHour)
               IN  /\ stats.hours = JAdd(sa.hours, sb.hours)
                   /\ stats.labor = JAdd(sa.labor, sb.labor)

\* C5 witness: two persons of people, each with a non-zero share of hours
C5_Witness ==
    /\ pc = "done"
    /\ Cardinality(DOMAIN month.personAllocations) = 2
    /\ Dangling(people, month) = {}
    /\ \A i \in 1..Len(people) : PersonHours(people, month, i).n # 0
    /\ stats.labor.n # 0

(***************************************************************************)
(* SpecTotals : computeProjectTotals applied to one project                *)
(***************************************************************************)
\* largest number of months of a project
MaxMonths == 2

\* the roster snapshot: person i has the compensation profile i mod 3
RosterPerson(i) ==
    CHOOSE p \in PersonVariants(i) :
        p.personType = (IF i % 3 = 1 THEN "Full-Time"
                        ELSE IF i % 3 = 2 THEN "Contractor" ELSE "FT Resource")

FullRoster == [i \in PersonIds |-> RosterPerson(i)]

\* allocation maps of the project months: nobody, one roster person, or the
\* whole roster, at 50 %
TotalsAllocMaps ==
    {[i \in S |-> Int2Num(50)] : S \in {{}, PersonIds} \cup {{i} : i \in PersonIds}}

\* <<expenses, revenue>> of a project month
MoneyPairs == {<<0, 0>>, <<5000, 0>>, <<0, 5000>>, <<5000, -100>>}

TotalsMonthRows ==
    {[id |-> 1, personAllocations |-> a,
      expenses |-> Int2Num(mp[1]), revenue |-> Int2Num(mp[2])] :
        a \in TotalsAllocMaps, mp \in MoneyPairs}

SeqsUpTo(S, n) == UNION {[1..k -> S] : k \in 0..n}

StartA == <<50, 48, 50, 52, 45, 49, 49>>   \* "2024-11"

TotalsProjects ==
    [id : {1}, overheadPerHour : {Zero, Int2Num(10)}, startMonthISO : {StartA},
     memberIds : SUBSET PersonIds, months : SeqsUpTo(TotalsMonthRows, MaxMonths)]

InitTotals ==
    /\ pc = "input"
    /\ roster = FullRoster
    /\ project \in TotalsProjects
    /\ totals = Idle
    /\ person = Idle /\ rate = Idle
    /\ people = Idle /\ month = Idle /\ overheadPerHour = Idle /\ stats = Idle
    /\ projects = Idle /\ filter = Idle /\ rollup = Idle /\ projRollup = Idle
    /\ ymStart = Idle /\ ymIndex = Idle /\ ymResult = Idle /\ bucketYm = Idle
    /\ selectedPeople = Idle /\ heat = Idle /\ deptHeat = Idle /\ globalHours = Idle
    /\ showAddModal = Idle /\ tempSelected = Idle /\ call = Idle
    /\ db = Idle /\ request = Idle /\ response = Idle
    /\ hydrated = Idle /\ effectDue = Idle /\ saveTimer = Idle /\ timers = Idle /\ upserted = Idle
    /\ weekState = Idle /\ order = Idle /\ sent = Idle
    /\ prevWeek = Idle
    /\ selectedDepartments = Idle

CallComputeProjectTotals ==
    /\ pc = "input"
    /\ totals' = computeProjectTotals(project, roster)
    /\ pc' = "done"
    /\ UNCHANGED <<person, rate, people, month, overheadPerHour, stats, roster,
                   project, projects, filter, rollup, projRollup,
                   ymStart, ymIndex, ymResult, bucketYm,
                   selectedPeople, heat, deptHeat, globalHours,
                   showAddModal, tempSelected, call,
                   db, request, response,
                   hydrated, effectDue, saveTimer, timers, upserted,
                   weekState, order, sent,
                   prevWeek,
                   selectedDepartments>>

NextTotals == CallComputeProjectTotals

SpecTotals == InitTotals /\ [][NextTotals]_vars

\* C6: profit = revenue - allIn; margin = profit / revenue when the total
\* revenue is > 0 and exactly 0 otherwise, whatever the costs; margin is
\* never NaN or infinite.
C6_MarginGuard ==
    pc = "done" =>
        /\ totals.profit.k = "fin" /\ totals.revenue.k = "fin"
        /\ totals.allIn.k = "fin" /\ totals.margin.k = "fin"
        /\ JAdd(totals.profit, totals.allIn) = totals.revenue
        /\ totals.revenue.n > 0 => JMul(totals.margin, totals.revenue) = totals.profit
        /\ totals.revenue.n <= 0 => totals.margin = Zero

\* C6 witness: revenue 0 and allIn 10000 give margin 0 and profit -10000
C6_Witness ==
    /\ pc = "done"
    /\ totals.revenue = Zero /\ totals.allIn = Int2Num(10000)
    /\ totals.margin = Zero /\ totals.profit = Int2Num(-10000)

\* C7: every sum of computeProjectTotals is the sum, over the months of the
\* project, of the matching field of computeMonthStats computed with the
\* roster restricted to memberIds and the project's overheadPerHour; allIn
\* is the sum of the months' allIn.
C7_TotalsAreMonthSums ==
    pc = "done" =>
        LET mem == Members(project, roster)
            I == 1..Len(project.months)
            st == [i \in I |-> computeMonthStats(mem, project.months[i],
                                                 project.overheadPerHour)]
        IN  /\ \A i \in 1..Len(mem) : mem[i].id \in project.memberIds
            /\ \A i \in 1..Len(roster) :
                  roster[i].id \in project.memberIds
                  => \E j \in 1..Len(mem) : mem[j] = roster[i]
            /\ totals.totalHours = SumOver(I, [i \in I |-> st[i].hours])
            /\ totals.laborCost = SumOver(I, [i \in I |-> st[i].labor])
            /\ totals.overheadCost = SumOver(I, [i \in I |-> st[i].overhead])
            /\ totals.expenses = SumOver(I, [i \in I |-> st[i].expenses])
            /\ totals.revenue = SumOver(I, [i \in I |-> st[i].revenue])
            /\ totals.allIn = SumOver(I, [i \in I |-> st[i].allIn])

\* C7 witness: two months with different figures, both with labor, and a
\* roster person outside memberIds who has an allocation
C7_Witness ==
    /\ pc = "done"
    /\ Len(project.months) = 2
    /\ project.months[1] # project.months[2]
    /\ \E i \in PersonIds :
          i \notin project.memberIds /\ i \in DOMAIN project.months[1].personAllocations
    /\ \A i \in 1..2 :
          computeMonthStats(Members(project, roster), project.months[i],
                            project.overheadPerHour).labor.n > 0
    /\ totals.overheadCost.n > 0

(***************************************************************************)
(* SpecRollup : the dashboard rollup, the project-detail rollup and the    *)
(* project totals applied to a list of two projects                        *)
(***************************************************************************)
\* the project months of the rollup inputs: persons 1 and 2 at 50 % each;
\* person 1 at -50 % (the API schema accepts any number); person 2 at 150 %
RollupMonthRows ==
    { [id |-> 1, personAllocations |-> (1 :> Int2Num(50)) @@ (2 :> Int2Num(50)),
       expenses |-> Int2Num(1000), revenue |-> Int2Num(5000)],
      [id |-> 1, personAllocations |-> (1 :> Int2Num(-50)),
       expenses |-> Zero, revenue |-> Zero],
      [id |-> 1, personAllocations |-> (2 :> Int2Num(150)),
       expenses |-> Int2Num(500), revenue |-> Zero] }

StartB == <<50, 48, 50, 52, 45, 49, 50>>   \* "2024-12"

StartC == <<50, 48, 50, 53, 45, 48, 49>>   \* "2025-01"

\* project k of the list: overheadPerHour is 10 * k
RollupProjectsOf(k) ==
    [id : {k}, overheadPerHour : {Int2Num(10 * k)},
     startMonthISO : {StartB, StartC},
     memberIds : {{1}, {1, 2}}, months : SeqsUpTo(RollupMonthRows, MaxMonths)]

\* the date filter of the dashboard; <<>> is the empty string (no bound)
Filters ==
    { [startYm |-> <<>>, endYm |-> <<>>],
      [startYm |-> StartC, endYm |-> <<>>],
      [startYm |-> <<>>, endYm |-> StartB] }

InitRollup ==
    /\ pc = "input"
    /\ roster = FullRoster
    /\ \E p1 \in RollupProjectsOf(1), p2 \in RollupProjectsOf(2) : projects = <<p1, p2>>
    /\ filter \in Filters
    /\ rollup = Idle /\ projRollup = Idle /\ totals = Idle /\ project = Idle
    /\ person = Idle /\ rate = Idle
    /\ people = Idle /\ month = Idle /\ overheadPerHour = Idle /\ stats = Idle
    /\ ymStart = Idle /\ ymIndex = Idle /\ ymResult = Idle /\ bucketYm = Idle
    /\ selectedPeople = Idle /\ heat = Idle /\ deptHeat = Idle /\ globalHours = Idle
    /\ showAddModal = Idle /\ tempSelected = Idle /\ call = Idle
    /\ db = Idle /\ request = Idle /\ response = Idle
    /\ hydrated = Idle /\ effectDue = Idle /\ saveTimer = Idle /\ timers = Idle /\ upserted = Idle
    /\ weekState = Idle /\ order = Idle /\ sent = Idle
    /\ prevWeek = Idle
    /\ selectedDepartments = Idle

CallBuildCalendarRollupFiltered ==
    /\ pc = "input"
    /\ rollup' = buildCalendarRollupFiltered(projects, roster, filter)
    /\ pc' = "rollup"
    /\ UNCHANGED <<person, rate, people, month, overheadPerHour, stats, roster,
                   project, totals, projects, filter, projRollup,
                   ymStart, ymIndex, ymResult, bucketYm,
                   selectedPeople, heat, deptHeat, globalHours,
                   showAddModal, tempSelected, call,
                   db, request, response,
                   hydrated, effectDue, saveTimer, timers, upserted,
                   weekState, order, sent,
                   prevWeek,
                   selectedDepartments>>

\* the project detail page of projects[k]
CallBuildProjectRollup(k) ==
    /\ pc = "input"
    /\ project' = projects[k]
    /\ projRollup' = buildProjectRollup(projects[k], roster, Len(projects[k].months))
    /\ pc' = "projRollup"
    /\ UNCHANGED <<person, rate, people, month, overheadPerHour, stats, roster,
                   totals, projects, filter, rollup,
                   ymStart, ymIndex, ymResult, bucketYm,
                   selectedPeople, heat, deptHeat, globalHours,
                   showAddModal, tempSelected, call,
                   db, request, response,
                   hydrated, effectDue, saveTimer, timers, upserted,
                   weekState, order, sent,
                   prevWeek,
                   selectedDepartments>>

CallProjectTotalsOf(k) ==
    /\ pc = "input"
    /\ project' = projects[k]
    /\ totals' = computeProjectTotals(projects[k], roster)
    /\ pc' = "totals"
    /\ UNCHANGED <<person, rate, people, month, overheadPerHour, stats, roster,
                   projects, filter, rollup, projRollup,
                   ymStart, ymIndex, ymResult, bucketYm,
                   selectedPeople, heat, deptHeat, globalHours,
                   showAddModal, tempSelected, call,
                   db, request, response,
                   hydrated, effectDue, saveTimer, timers, upserted,
                   weekState, order, sent,
                   prevWeek,
                   selectedDepartments>>

NextRollup ==
    \/ CallBuildCalendarRollupFiltered
    \/ \E k \in 1..Len(projects) : CallBuildProjectRollup(k)
    \/ \E k \in 1..Len(projects) : CallProjectTotalsOf(k)

SpecRollup == InitRollup /\ [][NextRollup]_vars

NoFilter == [startYm |-> <<>>, endYm |-> <<>>]

\* the calendar month of a YYYY-MM string as a number of months
MonthNumber(s) ==
    12 * NumberOfDigits(SubSeq(s, 1, 4)) + NumberOfDigits(SubSeq(s, 6, 7)) - 1

\* the calendar month of month i (1-based) of project p: startMonthISO + (i - 1)
CalMonth(p, i) == MonthNumber(p.startMonthISO) + (i - 1)

\* calendar month n passes the date filter f
Included(n, f) ==
    /\ f.startYm = <<>> \/ n >= MonthNumber(f.startYm)
    /\ f.endYm = <<>> \/ n <= MonthNumber(f.endYm)

\* sum of field fld over the rows of a rollup
RowsTotal(rows, fld) ==
    SumOver(1..Len(rows), [j \in 1..Len(rows) |-> rows[j][fld]])

RECURSIVE RosterWithout(_, _)
RosterWithout(ros, pid) ==
    IF ros = <<>> THEN <<>>
    ELSE IF ros[1].id = pid THEN RosterWithout(Tail(ros), pid)
    ELSE <<ros[1]>> \o RosterWithout(Tail(ros), pid)

HasPositiveAlloc(m, pid) ==
    pid \in DOMAIN m.personAllocations /\ m.personAllocations[pid].k = "fin"
        /\ m.personAllocations[pid].n > 0

\* every allocation entry of person pid in project p is positive
OnlyPositive(p, pid) ==
    \A i \in 1..Len(p.months) :
        pid \in DOMAIN p.months[i].personAllocations => HasPositiveAlloc(p.months[i], pid)

\* baseMonthlyHours * allocPct / 100 of roster person j summed over the months
\* of p where j has a positive allocation and that pass the filter f
PositiveHours(p, j, f) ==
    LET I == {i \in 1..Len(p.months) :
                HasPositiveAlloc(p.months[i], roster[j].id) /\ Included(CalMonth(p, i), f)}
    IN  SumOver(I, [i \in I |-> PersonHours(roster, p.months[i], j)])

\* What roster person j adds to the totals of `project` and to the calendar
\* rollup, measured against the same computation on the roster without j,
\* is PositiveHours (with the matching labor and overhead) in every project
\* where Counts(p, j) holds, and nothing elsewhere.
ContributionIs(Counts(_, _)) ==
    /\ pc = "totals" =>
          \A j \in 1..Len(roster) :
              OnlyPositive(project, roster[j].id) =>
                  LET rest == computeProjectTotals(project, RosterWithout(roster, roster[j].id))
                      h == IF Counts(project, j) THEN PositiveHours(project, j, NoFilter)
                           ELSE Zero
                  IN  /\ JSub(totals.totalHours, rest.totalHours) = h
                      /\ JSub(totals.laborCost, rest.laborCost)
                            = JMul(effectiveHourlyRate(roster[j]), h)
                      /\ JSub(totals.overheadCost, rest.overheadCost)
                            = JMul(project.overheadPerHour, h)
    /\ pc = "rollup" =>
          \A j \in 1..Len(roster) :
              LET rest == buildCalendarRollupFiltered(
                              projects, RosterWithout(roster, roster[j].id), filter)
                  K == 1..Len(projects)
                  h == [k \in K |-> IF Counts(projects[k], j)
                                    THEN PositiveHours(projects[k], j, filter) ELSE Zero]
              IN  JSub(RowsTotal(rollup, "hours"), RowsTotal(rest, "hours")) = SumOver(K, h)

Always(p, j) == TRUE

IsInMemberIds(p, j) == roster[j].id \in p.memberIds

\* C8 as stated: a roster person with a positive allocation in a project
\* month contributes baseMonthlyHours*allocPct/100 hours (and the matching
\* labor and overhead) to computeProjectTotals and to the calendar rollup,
\* whether or not the person's id is in memberIds.
C8_KeyedOffAllocationsOriginal == ContributionIs(Always)

\* C8 amended: the person contributes these hours, labor and overhead if the
\* id is in project.memberIds, and contributes nothing if it is not.
C8_KeyedOffMembersAndAllocations == ContributionIs(IsInMemberIds)

\* C8 witness: totals of a project in which a roster person outside memberIds
\* has a positive allocation next to a member who has one
C8_Witness ==
    /\ pc = "totals"
    /\ \E j \in 1..Len(roster), i \in 1..Len(project.months) :
          /\ roster[j].id \notin project.memberIds
          /\ OnlyPositive(project, roster[j].id)
          /\ HasPositiveAlloc(project.months[i], roster[j].id)
    /\ totals.totalHours.n > 0

RowStats(r) ==
    [hours |-> r.hours, labor |-> r.labor, overhead |-> r.overhead,
     expenses |-> r.expenses, allIn |-> r.allIn, revenue |-> r.revenue]

\* computeMonthStats(members, month, overheadPerHour) of month i of project p
MonthStatsOf(p, i) ==
    computeMonthStats(Members(p, roster), p.months[i], p.overheadPerHour)

\* the project-months <<k, i>> of the list that fall on calendar month n
MonthsOn(n) ==
    {ki \in (1..Len(projects)) \X (1..MaxMonths) :
        ki[2] <= Len(projects[ki[1]].months) /\ CalMonth(projects[ki[1]], ki[2]) = n}

StatFields == {"hours", "labor", "overhead", "expenses", "allIn", "revenue"}

TotalsField(fld) ==
    IF fld = "hours" THEN "totalHours"
    ELSE IF fld = "labor" THEN "laborCost"
    ELSE IF fld = "overhead" THEN "overheadCost" ELSE fld

NoDrift ==
    /\ pc = "projRollup" =>
          /\ Len(projRollup) = Len(project.months)
          /\ \A i \in 1..Len(projRollup) :
                RowStats(projRollup[i]) = MonthStatsOf(project, i)
    /\ pc = "rollup" =>
          \A j \in 1..Len(rollup), fld \in StatFields :
              LET S == MonthsOn(MonthNumber(rollup[j].ym))
              IN  rollup[j][fld] =
                    SumOver(S, [ki \in S |-> MonthStatsOf(projects[ki[1]], ki[2])[fld]])
    /\ (pc = "rollup" /\ filter = NoFilter) =>
          \A fld \in StatFields :
              LET K == 1..Len(projects)
              IN  RowsTotal(rollup, fld) =
                    SumOver(K, [k \in K |->
                        computeProjectTotals(projects[k], roster)[TotalsField(fld)]])

\* C9: the figures the dashboard rollup and the project-detail rollup give a
\* project-month equal computeMonthStats(members, month, overheadPerHour);
\* without a date filter the bucket sums equal the sums of computeProjectTotals.
C9_NoDriftBetweenViews == NoDrift

\* no member of project p has a negative allocation
NoNegativeAlloc(p) ==
    \A i \in 1..Len(p.months) :
        \A pid \in DOMAIN p.months[i].personAllocations :
            pid \in p.memberIds => p.months[i].personAllocations[pid].n >= 0

\* the extent of the C9 divergence: the views agree on every input in which
\* no member has a negative allocation
C9_NoDriftWithoutNegatives ==
    (/\ pc = "projRollup" => NoNegativeAlloc(project)
     /\ pc = "rollup" => \A k \in 1..Len(projects) : NoNegativeAlloc(projects[k]))
    => NoDrift

\* the calendar months of the in-scope project-months that pass the filter
TouchedMonths ==
    {n \in {CalMonth(projects[k], i) : k \in 1..Len(projects), i \in 1..MaxMonths} :
        MonthsOn(n) # {} /\ Included(n, filter)}

C10_WitnessNoMonths ==
    /\ pc = "rollup"
    /\ projects[1].months = <<>> /\ Len(projects[2].months) = 2
    /\ Len(rollup) = 2

(***************************************************************************)
(* SpecYm : ymFromStartIndex applied to one start month and one index, and *)
(* the ym calendarRollup derives for the same project month                *)
(***************************************************************************)
\* largest month index
MaxIndex == 12

\* the years of the start months: two-digit, three-digit, and four-digit ones
StartYears == {24, 999, 1999, 2024, 9999}

\* the text of a month input for year y < 10000 and month m: "YYYY-MM"
MonthInputValue(y, m) ==
    <<48 + (y \div 1000), 48 + ((y \div 100) % 10), 48 + ((y \div 10) % 10),
      48 + (y % 10), 45, 48 + (m \div 10), 48 + (m % 10)>>

InitYm ==
    /\ pc = "input"
    /\ \E y \in StartYears, m \in 1..12 : ymStart = MonthInputValue(y, m)
    /\ ymIndex \in 0..MaxIndex
    /\ ymResult = Idle /\ bucketYm = Idle
    /\ person = Idle /\ rate = Idle
    /\ people = Idle /\ month = Idle /\ overheadPerHour = Idle /\ stats = Idle
    /\ roster = Idle /\ project = Idle /\ totals = Idle
    /\ projects = Idle /\ filter = Idle /\ rollup = Idle /\ projRollup = Idle
    /\ selectedPeople = Idle /\ heat = Idle /\ deptHeat = Idle /\ globalHours = Idle
    /\ showAddModal = Idle /\ tempSelected = Idle /\ call = Idle
    /\ db = Idle /\ request = Idle /\ response = Idle
    /\ hydrated = Idle /\ effectDue = Idle /\ saveTimer = Idle /\ timers = Idle /\ upserted = Idle
    /\ weekState = Idle /\ order = Idle /\ sent = Idle
    /\ prevWeek = Idle
    /\ selectedDepartments = Idle

CallYmFromStartIndex ==
    /\ pc = "input"
    /\ ymResult' = ymFromStartIndex(ymStart, ymIndex)
    /\ bucketYm' = calendarRollupYm(ymStart, ymIndex)
    /\ pc' = "done"
    /\ UNCHANGED <<person, rate, people, month, overheadPerHour, stats, roster,
                   project, totals, projects, filter, rollup, projRollup,
                   ymStart, ymIndex,
                   selectedPeople, heat, deptHeat, globalHours,
                   showAddModal, tempSelected, call,
                   db, request, response,
                   hydrated, effectDue, saveTimer, timers, upserted,
                   weekState, order, sent,
                   prevWeek,
                   selectedDepartments>>

NextYm == CallYmFromStartIndex

SpecYm == InitYm /\ [][NextYm]_vars

\* the year and the month a "YYYY-MM" text of seven characters stands for
YearOf(s) == 1000 * (s[1] - 48) + 100 * (s[2] - 48) + 10 * (s[3] - 48) + (s[4] - 48)

MonthOf(s) == 10 * (s[6] - 48) + (s[7] - 48)

\* the text "Y-MM" of year yy >= 0 and month mm, the year padded with zeros
\* to at least `width` digits
RECURSIVE YearText(_, _)
YearText(yy, width) ==
    IF width <= 1 /\ yy < 10 THEN <<48 + yy>>
    ELSE Append(YearText(yy \div 10, width - 1), 48 + (yy % 10))

YmText(yy, mm, width) ==
    YearText(yy, width) \o <<45, 48 + (mm \div 10), 48 + (mm % 10)>>

\* ymFromStartIndex and calendarRollup give, for start year y read as y0 and
\* printed with at least `width` digits, year y0 + (m-1+i) div 12 and month
\* ((m-1+i) mod 12) + 1; the next index gives the next calendar month
YmIs(y0, width) ==
    LET m == MonthOf(ymStart)
        yy == y0 + ((m - 1 + ymIndex) \div 12)
        mm == ((m - 1 + ymIndex) % 12) + 1
        nextYy == IF mm = 12 THEN yy + 1 ELSE yy
        nextMm == IF mm = 12 THEN 1 ELSE mm + 1
    IN  /\ ymResult = YmText(yy, mm, width)
        /\ bucketYm = ymResult
        /\ ymFromStartIndex(ymStart, ymIndex + 1) = YmText(nextYy, nextMm, width)

C11_WitnessTwoDigitYear ==
    /\ pc = "done"
    /\ YearOf(ymStart) = 24 /\ ymIndex = 0
    /\ YearOf(ymResult) = 1924

(***************************************************************************)
(* resourcing/page.tsx, page.tsx, projects/[id]/page.tsx : utilization     *)
(* A roster person carries department, isActive and inactiveDate           *)
(* (a YYYY-MM-DD string, <<>> when not set).  A HeatCell is                *)
(* [ym, hours, util]; the display label of a cell or month is derived from *)
(* ym alone and is left out.  A HeatProjectRow names its project by id.    *)
(***************************************************************************)
\* monthDate >= person.inactiveDate on the strings `${ym}-01` and inactiveDate
isPersonInactiveInMonth(per, ymStr) ==
    IF per.isActive # FALSE THEN FALSE
    ELSE IF per.inactiveDate = <<>> THEN FALSE
    ELSE ~StrLt(ymStr \o <<45, 48, 49>>, per.inactiveDate)

\* the ym strings of the project months that pass the date filter
\* (allMonths / monthsSet)
MonthsSet(projs, f) ==
    {y \in UNION {{ymFromStartIndex(projs[k].startMonthISO, i - 1) :
                        i \in 1..Len(projs[k].months)} : k \in 1..Len(projs)} :
        inYmRange(y, f.startYm, f.endYm)}

\* Array.from(set).sort(): ascending by code units
RECURSIVE SortYms(_)
SortYms(S) ==
    IF S = {} THEN <<>>
    ELSE LET lo == CHOOSE x \in S : \A y \in S : y = x \/ StrLt(x, y)
         IN  <<lo>> \o SortYms(S \ {lo})

\* the selectedPeople argument: null, or a Set of ids
NoSelection == [isNull |-> TRUE, ids |-> {}]

Selection(S) == [isNull |-> FALSE, ids |-> S]

\* selectedPeople ? roster.filter((r) => selectedPeople.has(r.id)) : roster
SelectPeople(ros, sel) ==
    IF sel.isNull THEN ros
    ELSE LET IsSelected(r) == r.id \in sel.ids IN SelectSeq(ros, IsSelected)

\* month i of project p adds hours for person per: per.id is one of
\* p.memberIds and no continue is taken in the loop over p.memberIds
MemberCounts(p, i, per) ==
    /\ per.id \in p.memberIds
    /\ ~JLe(toNumber(AllocOrZero(p.months[i], per.id), Zero), Zero)

\* (base * alloc) / 100
MemberHours(p, i, per) ==
    JDiv(JMul(toNumber(per.baseMonthlyHours, Zero),
              toNumber(AllocOrZero(p.months[i], per.id), Zero)), Int2Num(100))

\* byPersonProject[per.id][p.id][ym] after the first n months of p; Undef
\* while the key ym is not set
RECURSIVE ByPersonProject(_, _, _, _, _)
ByPersonProject(p, n, per, ymStr, months) ==
    IF n = 0 THEN Undef
    ELSE LET acc == ByPersonProject(p, n - 1, per, ymStr, months)
         IN  IF ymFromStartIndex(p.startMonthISO, n - 1) # ymStr THEN acc
             ELSE IF ymStr \notin months THEN acc
             ELSE IF ~MemberCounts(p, n, per) THEN acc
             ELSE JAdd(toNumber(acc, Zero), MemberHours(p, n, per))

\* byPersonProject[id][p.id][ym] ?? 0
ProjectCellHours(p, per, ymStr, months) ==
    toNumber(ByPersonProject(p, Len(p.months), per, ymStr, months), Zero)

\* byPersonTotal[per.id][ym] after the first k projects
RECURSIVE ByPersonTotal(_, _, _, _, _)
ByPersonTotal(projs, k, per, ymStr, months) ==
    IF k = 0 THEN Zero
    ELSE JAdd(ByPersonTotal(projs, k - 1, per, ymStr, months),
              ProjectCellHours(projs[k], per, ymStr, months))

\* cells.reduce((s, c) => s + c[fld], 0)
RECURSIVE SumCells(_, _, _)
SumCells(cells, n, fld) ==
    IF n = 0 THEN Zero ELSE JAdd(SumCells(cells, n - 1, fld), cells[n][fld])

\* totalHours and avgUtil of a sequence of cells
CellsSummary(cells) ==
    [cells |-> cells,
     totalHours |-> SumCells(cells, Len(cells), "hours"),
     avgUtil |-> IF Len(cells) # 0
                 THEN JDiv(SumCells(cells, Len(cells), "util"), Int2Num(Len(cells)))
                 ELSE Zero]

\* the values of byPersonProject[per.id][p.id], if the object exists
ProjectEntryValues(p, per, months) ==
    {ByPersonProject(p, Len(p.months), per, months[j], SeqRange(months)) :
        j \in 1..Len(months)} \ {Undef}

\* mutant: every project gets a row in the breakdown of a person
PersonProjects_All(projs, per, months) == projs

\* projects.filter(p => !!byPersonProject[id][p.id] && values.some(h => h > 0))
PersonProjects(projs, per, months) ==
    LET HasHours(p) == \E h \in ProjectEntryValues(p, per, months) : JGt(h, Zero)
    IN  SelectSeq(projs, HasHours)

\* mutant: util is capped at 1
PersonRow_Capped(projs, per, months) ==
    LET base == JMax(Int2Num(1), toNumber(per.baseMonthlyHours, Zero))
        mset == SeqRange(months)
        totalCells == [j \in 1..Len(months) |->
            LET hours == ByPersonTotal(projs, Len(projs), per, months[j], mset)
            IN  [ym |-> months[j], hours |-> hours,
                 util |-> JMin(Int2Num(1), JDiv(hours, base))]]
        shown == PersonProjects(projs, per, months)
        projRows == [r \in 1..Len(shown) |->
            CellsSummary([j \in 1..Len(months) |->
                LET hours == ProjectCellHours(shown[r], per, months[j], mset)
                IN  [ym |-> months[j], hours |-> hours, util |-> JDiv(hours, base)]])
            @@ [project |-> shown[r].id]]
    IN  [person |-> per, total |-> CellsSummary(totalCells), byProject |-> projRows]

\* people.map((person) => ...): the HeatPersonRow of person per
PersonRow(projs, per, months) ==
    LET base == JMax(Int2Num(1), toNumber(per.baseMonthlyHours, Zero))
        mset == SeqRange(months)
        totalCells == [j \in 1..Len(months) |->
            LET hours == ByPersonTotal(projs, Len(projs), per, months[j], mset)
            IN  [ym |-> months[j], hours |-> hours, util |-> JDiv(hours, base)]]
        shown == PersonProjects(projs, per, months)
        projRows == [r \in 1..Len(shown) |->
            CellsSummary([j \in 1..Len(months) |->
                LET hours == ProjectCellHours(shown[r], per, months[j], mset)
                IN  [ym |-> months[j], hours |-> hours, util |-> JDiv(hours, base)]])
            @@ [project |-> shown[r].id]]
    IN  [person |-> per, total |-> CellsSummary(totalCells), byProject |-> projRows]

\* shouldShowPerson(person, months) on the person's row
shouldShowPerson(row, months) ==
    \/ \E j \in 1..Len(months) : JGt(row.total.cells[j].hours, Zero)
    \/ \E j \in 1..Len(months) : ~isPersonInactiveInMonth(row.person, months[j])

buildUtilizationMatrixWithProjects(projs, ros, sel, f) ==
    IF Len(projs) = 0 THEN [months |-> <<>>, rows |-> <<>>]
    ELSE LET months == SortYms(MonthsSet(projs, f))
             ppl == SelectPeople(ros, sel)
             rows == [r \in 1..Len(ppl) |-> PersonRow(projs, ppl[r], months)]
             Visible(row) == shouldShowPerson(row, months)
         IN  [months |-> months, rows |-> SelectSeq(rows, Visible)]

\* the keys of departmentMap in insertion order: the departments of the
\* first n roster persons, each at its first appearance
RECURSIVE Departments(_, _)
Departments(ros, n) ==
    IF n = 0 THEN <<>>
    ELSE LET acc == Departments(ros, n - 1)
         IN  IF \E j \in 1..Len(acc) : acc[j] = ros[n].department THEN acc
             ELSE Append(acc, ros[n].department)

\* departmentMap.get(dept)
DeptPeople(ros, dept) ==
    LET InDept(r) == r.department = dept IN SelectSeq(ros, InDept)

\* the loop "for (const person of deptPeople)" of a total cell over the first
\* n persons: totalHours and totalCapacity
RECURSIVE DeptCellLoop(_, _, _, _, _)
DeptCellLoop(projs, dp, n, ymStr, months) ==
    IF n = 0 THEN [hours |-> Zero, capacity |-> Zero]
    ELSE LET acc == DeptCellLoop(projs, dp, n - 1, ymStr, months)
         IN  [hours |-> JAdd(acc.hours,
                             ByPersonTotal(projs, Len(projs), dp[n], ymStr, months)),
              capacity |-> JAdd(acc.capacity, toNumber(dp[n].baseMonthlyHours, Zero))]

\* mutant: the department's utilization is the average of its members' ratios
DeptTotalCell_AverageOfRatios(projs, dp, ymStr, months) ==
    LET t == DeptCellLoop(projs, dp, Len(dp), ymStr, months)
        ratios == [n \in 1..Len(dp) |->
            [util |-> JDiv(ByPersonTotal(projs, Len(projs), dp[n], ymStr, months),
                           JMax(Int2Num(1), toNumber(dp[n].baseMonthlyHours, Zero)))]]
    IN  [ym |-> ymStr, hours |-> t.hours,
         util |-> JDiv(SumCells(ratios, Len(dp), "util"), Int2Num(Len(dp)))]

\* a cell of the department's total row
DeptTotalCell(projs, dp, ymStr, months) ==
    LET t == DeptCellLoop(projs, dp, Len(dp), ymStr, months)
    IN  [ym |-> ymStr, hours |-> t.hours,
         util |-> IF JGt(t.capacity, Zero) THEN JDiv(t.hours, t.capacity) ELSE Zero]

\* the loop "for (const person of deptPeople)" of a project cell over the
\* first n persons: projectHours and projectCapacity
RECURSIVE DeptProjectCellLoop(_, _, _, _, _)
DeptProjectCellLoop(p, dp, n, ymStr, months) ==
    IF n = 0 THEN [hours |-> Zero, capacity |-> Zero]
    ELSE LET acc == DeptProjectCellLoop(p, dp, n - 1, ymStr, months)
         IN  IF dp[n].id \notin p.memberIds THEN acc
             ELSE [hours |-> JAdd(acc.hours, ProjectCellHours(p, dp[n], ymStr, months)),
                   capacity |-> JAdd(acc.capacity,
                                     toNumber(dp[n].baseMonthlyHours, Zero))]

DeptProjectCell(p, dp, ymStr, months) ==
    LET t == DeptProjectCellLoop(p, dp, Len(dp), ymStr, months)
    IN  [ym |-> ymStr, hours |-> t.hours,
         util |-> IF JGt(t.capacity, Zero) THEN JDiv(t.hours, t.capacity) ELSE Zero]

\* projects.filter(p => p.memberIds.some(id => deptPeople.some(...)))
DeptProjects(projs, dp) ==
    LET HasMember(p) == \E n \in 1..Len(dp) : dp[n].id \in p.memberIds
    IN  SelectSeq(projs, HasMember)

\* mutant: the rows without hours are kept
DeptProjectRows_All(projs, dp, months) ==
    LET dprojs == DeptProjects(projs, dp)
        mset == SeqRange(months)
    IN  [r \in 1..Len(dprojs) |->
            CellsSummary([j \in 1..Len(months) |->
                DeptProjectCell(dprojs[r], dp, months[j], mset)])
            @@ [project |-> dprojs[r].id]]

\* deptProjects.map(...).filter(row => row.totalHours > 0)
DeptProjectRows(projs, dp, months) ==
    LET dprojs == DeptProjects(projs, dp)
        mset == SeqRange(months)
        rows == [r \in 1..Len(dprojs) |->
            CellsSummary([j \in 1..Len(months) |->
                DeptProjectCell(dprojs[r], dp, months[j], mset)])
            @@ [project |-> dprojs[r].id]]
        HasHours(row) == JGt(row.totalHours, Zero)
    IN  SelectSeq(rows, HasHours)

\* the HeatDepartmentRow of department dept
DeptRow(projs, ros, dept, months) ==
    LET dp == DeptPeople(ros, dept)
        mset == SeqRange(months)
    IN  [department |-> dept, people |-> dp,
         total |-> CellsSummary([j \in 1..Len(months) |->
                       DeptTotalCell(projs, dp, months[j], mset)]),
         byProject |-> DeptProjectRows(projs, dp, months)]

buildDepartmentUtilizationMatrix(projs, ros, f) ==
    LET months == SortYms(MonthsSet(projs, f))
        depts == Departments(ros, Len(ros))
    IN  [months |-> months,
         rows |-> [r \in 1..Len(depts) |-> DeptRow(projs, ros, depts[r], months)]]

\* projects/[id]/page.tsx: map[person.id][ym] for every roster person and
\* every ym on which a key is set
globalHoursByPersonYm(projs, ros) ==
    LET all == MonthsSet(projs, [startYm |-> <<>>, endYm |-> <<>>])
        Touched(per) ==
            {y \in all : \E k \in 1..Len(projs) :
                ByPersonProject(projs[k], Len(projs[k].months), per, y, all) # Undef}
    IN  [pid \in {ros[r].id : r \in 1..Len(ros)} |->
            LET per == ros[FindPerson(ros, pid)]
            IN  [y \in Touched(per) |-> ByPersonTotal(projs, Len(projs), per, y, all)]]

\* globalHours / base of the Monthly Plan row of person per in month ymStr
globalUtil(gh, per, ymStr) ==
    LET hours == IF per.id \in DOMAIN gh /\ ymStr \in DOMAIN gh[per.id]
                 THEN gh[per.id][ymStr] ELSE Zero
    IN  JDiv(hours, JMax(Int2Num(1), toNumber(per.baseMonthlyHours, Zero)))

(***************************************************************************)
(* SpecUtil : the utilization matrices of the resourcing page and of the   *)
(* dashboard, the global hours of the project detail page and the          *)
(* dashboard rollup, applied to one project list and one roster            *)
(***************************************************************************)
InactiveFrom == <<50, 48, 50, 53, 45, 48, 49, 45, 48, 49>>   \* "2025-01-01"

\* roster person i with the compensation profile of RosterPerson(i)
UtilPerson(i, dept, active) ==
    RosterPerson(i) @@
    [department |-> dept, isActive |-> active,
     inactiveDate |-> IF active THEN <<>> ELSE InactiveFrom]

\* person 1 is an active engineer; person 2 is in either department, active
\* or inactive from 2025-01-01; the others are active in Ops
UtilRosters ==
    {[i \in PersonIds |->
        IF i = 1 THEN UtilPerson(1, "Engineering", TRUE)
        ELSE IF i = 2 THEN UtilPerson(2, dept, active)
        ELSE UtilPerson(i, "Ops", TRUE)] :
     dept \in {"Engineering", "Ops"}, active \in BOOLEAN}

\* the project months: 80 % + 80 %; 150 % and an explicit 0; person 2 alone
UtilMonthRows ==
    { [id |-> 1, personAllocations |-> (1 :> Int2Num(80)) @@ (2 :> Int2Num(80)),
       expenses |-> Int2Num(1000), revenue |-> Int2Num(5000)],
      [id |-> 1, personAllocations |-> (1 :> Int2Num(150)) @@ (2 :> Zero),
       expenses |-> Zero, revenue |-> Zero],
      [id |-> 1, personAllocations |-> (2 :> Int2Num(50)),
       expenses |-> Int2Num(500), revenue |-> Zero] }

UtilMonthRowsOfSecond ==
    {m \in UtilMonthRows : m.expenses # Zero}

UtilFirstProjects ==
    [id : {1}, overheadPerHour : {Int2Num(10)}, startMonthISO : {StartB},
     memberIds : {{1, 2}}, months : SeqsUpTo(UtilMonthRows, MaxMonths)]

\* the second project has no month or one month
UtilSecondProjects ==
    [id : {2}, overheadPerHour : {Int2Num(20)}, startMonthISO : {StartB, StartC},
     memberIds : {{1}, {1, 2}}, months : SeqsUpTo(UtilMonthRowsOfSecond, 1)]

InitUtil ==
    /\ pc = "input"
    /\ roster \in UtilRosters
    /\ \/ projects = <<>>
       \/ \E p1 \in UtilFirstProjects, p2 \in UtilSecondProjects : projects = <<p1, p2>>
    /\ filter \in Filters
    /\ selectedPeople \in {NoSelection, Selection({1})}
    /\ heat = Idle /\ deptHeat = Idle /\ globalHours = Idle
    /\ rollup = Idle /\ projRollup = Idle /\ totals = Idle /\ project = Idle
    /\ person = Idle /\ rate = Idle
    /\ people = Idle /\ month = Idle /\ overheadPerHour = Idle /\ stats = Idle
    /\ ymStart = Idle /\ ymIndex = Idle /\ ymResult = Idle /\ bucketYm = Idle
    /\ showAddModal = Idle /\ tempSelected = Idle /\ call = Idle
    /\ db = Idle /\ request = Idle /\ response = Idle
    /\ hydrated = Idle /\ effectDue = Idle /\ saveTimer = Idle /\ timers = Idle /\ upserted = Idle
    /\ weekState = Idle /\ order = Idle /\ sent = Idle
    /\ prevWeek = Idle
    /\ selectedDepartments = Idle

CallBuildUtilizationMatrixWithProjects ==
    /\ pc = "input"
    /\ heat' = buildUtilizationMatrixWithProjects(projects, roster, selectedPeople, filter)
    /\ pc' = "heat"
    /\ UNCHANGED <<person, rate, people, month, overheadPerHour, stats, roster,
                   project, totals, projects, filter, rollup, projRollup,
                   ymStart, ymIndex, ymResult, bucketYm,
                   selectedPeople, deptHeat, globalHours,
                   showAddModal, tempSelected, call,
                   db, request, response,
                   hydrated, effectDue, saveTimer, timers, upserted,
                   weekState, order, sent,
                   prevWeek,
                   selectedDepartments>>

CallBuildDepartmentUtilizationMatrix ==
    /\ pc = "input"
    /\ deptHeat' = buildDepartmentUtilizationMatrix(projects, roster, filter)
    /\ pc' = "deptHeat"
    /\ UNCHANGED <<person, rate, people, month, overheadPerHour, stats, roster,
                   project, totals, projects, filter, rollup, projRollup,
                   ymStart, ymIndex, ymResult, bucketYm,
                   selectedPeople, heat, globalHours,
                   showAddModal, tempSelected, call,
                   db, request, response,
                   hydrated, effectDue, saveTimer, timers, upserted,
                   weekState, order, sent,
                   prevWeek,
                   selectedDepartments>>

CallGlobalHoursByPersonYm ==
    /\ pc = "input"
    /\ globalHours' = globalHoursByPersonYm(projects, roster)
    /\ pc' = "globalHours"
    /\ UNCHANGED <<person, rate, people, month, overheadPerHour, stats, roster,
                   project, totals, projects, filter, rollup, projRollup,
                   ymStart, ymIndex, ymResult, bucketYm,
                   selectedPeople, heat, deptHeat,
                   showAddModal, tempSelected, call,
                   db, request, response,
                   hydrated, effectDue, saveTimer, timers, upserted,
                   weekState, order, sent,
                   prevWeek,
                   selectedDepartments>>

NextUtil ==
    \/ CallBuildUtilizationMatrixWithProjects
    \/ CallBuildDepartmentUtilizationMatrix
    \/ CallGlobalHoursByPersonYm
    \/ CallBuildCalendarRollupFiltered

SpecUtil == InitUtil /\ [][NextUtil]_vars

\* the cells (or rollup rows) whose calendar month passes the date filter
InRange(cells) ==
    LET Passes(c) == Included(MonthNumber(c.ym), filter) IN SelectSeq(cells, Passes)

\* the months of a matrix are exactly the calendar months of the project
\* months that pass the filter, those of the unfiltered matrix among them
MonthsFiltered(months, unfiltered) ==
    /\ {MonthNumber(months[j]) : j \in 1..Len(months)} = TouchedMonths
    /\ Len(months) = Cardinality(TouchedMonths)
    /\ LET Passes(y) == Included(MonthNumber(y), filter)
       IN  months = SelectSeq(unfiltered, Passes)

\* the per-project rows `by` are the rows `uby` of the unfiltered matrix cut
\* down to the months that pass the filter, without the rows left with no hours
BreakdownFiltered(by, uby) ==
    /\ \A x \in 1..Len(by) : \E y \in 1..Len(uby) :
          uby[y].project = by[x].project /\ by[x].cells = InRange(uby[y].cells)
    /\ \A y \in 1..Len(uby) :
          (\E j \in 1..Len(uby[y].cells) :
              /\ Included(MonthNumber(uby[y].cells[j].ym), filter)
              /\ uby[y].cells[j].hours.n > 0)
          => \E x \in 1..Len(by) : by[x].project = uby[y].project

\* C12: a project-month with calendar month ym is included iff (startYm is
\* absent or ym >= startYm) and (endYm is absent or ym <= endYm); the rollup
\* and each utilization matrix under a date filter are the unfiltered ones cut
\* down to the months that pass: an excluded project-month adds nothing to a
\* bucket or cell and creates no bucket or column.
C12_DateFilterInclusive ==
    /\ pc = "rollup" =>
          /\ {MonthNumber(rollup[j].ym) : j \in 1..Len(rollup)} = TouchedMonths
          /\ rollup = InRange(buildCalendarRollupFiltered(projects, roster, NoFilter))
    /\ pc = "heat" =>
          LET u == buildUtilizationMatrixWithProjects(projects, roster,
                                                      selectedPeople, NoFilter)
          IN  /\ MonthsFiltered(heat.months, u.months)
              /\ \A r \in 1..Len(heat.rows) : \E q \in 1..Len(u.rows) :
                    /\ u.rows[q].person = heat.rows[r].person
                    /\ heat.rows[r].total.cells = InRange(u.rows[q].total.cells)
                    /\ BreakdownFiltered(heat.rows[r].byProject, u.rows[q].byProject)
    /\ pc = "deptHeat" =>
          LET u == buildDepartmentUtilizationMatrix(projects, roster, NoFilter)
          IN  /\ MonthsFiltered(deptHeat.months, u.months)
              /\ Len(deptHeat.rows) = Len(u.rows)
              /\ \A r \in 1..Len(deptHeat.rows) :
                    /\ u.rows[r].department = deptHeat.rows[r].department
                    /\ deptHeat.rows[r].total.cells = InRange(u.rows[r].total.cells)
                    /\ BreakdownFiltered(deptHeat.rows[r].byProject, u.rows[r].byProject)

\* C12 witness: with startYm = 2025-01 the month 2024-12 of the first project,
\* in which person 1 has hours, is left out and its month 2025-01, the bound
\* itself, is the first column, with hours
C12_Witness ==
    /\ pc = "heat"
    /\ filter = [startYm |-> StartC, endYm |-> <<>>]
    /\ Len(projects) = 2 /\ Len(projects[1].months) = 2
    /\ HasPositiveAlloc(projects[1].months[1], 1)
    /\ Len(heat.months) >= 1 /\ heat.months[1] = StartC
    /\ Len(heat.rows) >= 1 /\ heat.rows[1].total.cells[1].hours.n > 0

\* C12 witness of the rollup: with endYm = 2024-12 the bucket 2024-12 is the
\* only one although a project month falls on 2025-01
C12_WitnessRollup ==
    /\ pc = "rollup"
    /\ filter = [startYm |-> <<>>, endYm |-> StartB]
    /\ Len(projects) = 2 /\ Len(projects[1].months) = 2
    /\ Len(rollup) = 1 /\ rollup[1].ym = StartB /\ rollup[1].hours.n > 0

\* the project-months <<k, i>> on calendar month n in which roster person j
\* is a member with a positive allocation
AllocatedOn(j, n) ==
    {ki \in MonthsOn(n) :
        /\ roster[j].id \in projects[ki[1]].memberIds
        /\ HasPositiveAlloc(projects[ki[1]].months[ki[2]], roster[j].id)}

\* hours is the sum of baseMonthlyHours*allocPct/100 of roster person j over
\* the project-months on calendar month n, and util is hours / baseMonthlyHours
\* (hours itself for a person without base hours), whatever its size
UtilizationIs(hours, util, j, n) ==
    LET S == AllocatedOn(j, n)
        base == Coerce0(roster[j].baseMonthlyHours)
    IN  /\ hours = SumOver(S, [ki \in S |->
                       PersonHours(roster, projects[ki[1]].months[ki[2]], j)])
        /\ IF base.n >= base.d THEN JMul(util, base) = hours ELSE util = hours
        /\ (base.n > 0 /\ \E ki \in S :
                projects[ki[1]].months[ki[2]].personAllocations[roster[j].id].n > 100)
           => util.n > util.d

C13_WitnessSingleMonth ==
    /\ pc = "heat"
    /\ \E c \in 1..Len(heat.months) :
          /\ Cardinality(AllocatedOn(1, MonthNumber(heat.months[c]))) = 1
          /\ Len(heat.rows) >= 1 /\ heat.rows[1].person.id = 1
          /\ heat.rows[1].total.cells[c].util = Fin(3, 2)

\* the roster persons of department dept
InDepartment(dept) == {j \in 1..Len(roster) : roster[j].department = dept}

\* allocated hours of roster person j on calendar month n
HoursOn(j, n) ==
    LET S == AllocatedOn(j, n)
    IN  SumOver(S, [ki \in S |-> PersonHours(roster, projects[ki[1]].months[ki[2]], j)])

\* C14: a department's utilization in a calendar month is (sum of the
\* allocated hours of all people of the department in that month) / (sum of
\* their baseMonthlyHours), and 0 when that capacity is 0; it is not the
\* average of the members' ratios.
C14_DepartmentRatioOfSums ==
    pc = "deptHeat" =>
        /\ {deptHeat.rows[r].department : r \in 1..Len(deptHeat.rows)}
              = {roster[j].department : j \in 1..Len(roster)}
        /\ \A r \in 1..Len(deptHeat.rows) : \A c \in 1..Len(deptHeat.months) :
              LET cell == deptHeat.rows[r].total.cells[c]
                  D == InDepartment(deptHeat.rows[r].department)
                  n == MonthNumber(deptHeat.months[c])
                  capacity == SumOver(D, [j \in D |-> Coerce0(roster[j].baseMonthlyHours)])
              IN  /\ cell.ym = deptHeat.months[c]
                  /\ cell.hours = SumOver(D, [j \in D |-> HoursOn(j, n)])
                  /\ IF capacity.n > 0 THEN JMul(cell.util, capacity) = cell.hours
                     ELSE cell.util = Zero

\* C14 witness: persons 1 (160 h) and 2 (120 h) are the Engineering
\* department; 150 % and 0 % give 240 h over 280 h = 6/7, where the average of
\* the two ratios is 3/4
C14_Witness ==
    /\ pc = "deptHeat"
    /\ InDepartment("Engineering") = {1, 2}
    /\ \E c \in 1..Len(deptHeat.months) :
          /\ HoursOn(1, MonthNumber(deptHeat.months[c])) = Int2Num(240)
          /\ HoursOn(2, MonthNumber(deptHeat.months[c])) = Zero
          /\ deptHeat.rows[1].department = "Engineering"
          /\ deptHeat.rows[1].total.cells[c].util = Fin(6, 7)

\* roster person j is inactive in calendar month n: isActive is false and the
\* first day of the month is on or after inactiveDate (YYYY-MM-DD)
InactiveOn(j, n) ==
    LET d == roster[j].inactiveDate
    IN  /\ roster[j].isActive = FALSE
        /\ d # <<>>
        /\ \/ n > MonthNumber(d)
           \/ n = MonthNumber(d) /\ 10 * (d[9] - 48) + (d[10] - 48) <= 1

\* C15: a person who is inactive in calendar month ym is left out of that
\* month's column of the department matrix: the capacity that divides the
\* department's hours for ym is the sum of the baseMonthlyHours of the people
\* of the department who are not inactive in ym.
C15_InactiveNotInCapacity ==
    pc = "deptHeat" =>
        \A r \in 1..Len(deptHeat.rows) : \A c \in 1..Len(deptHeat.months) :
            LET cell == deptHeat.rows[r].total.cells[c]
                n == MonthNumber(deptHeat.months[c])
                A == {j \in InDepartment(deptHeat.rows[r].department) : ~InactiveOn(j, n)}
                capacity == SumOver(A, [j \in A |-> Coerce0(roster[j].baseMonthlyHours)])
            IN  IF capacity.n > 0 THEN JMul(cell.util, capacity) = cell.hours
                ELSE cell.util = Zero

\* the state TLC reports against C15: person 2 (120 h), inactive from
\* 2025-01-01, is counted in the Engineering capacity of 2025-01
C15_InactiveCounted ==
    /\ pc = "deptHeat"
    /\ InDepartment("Engineering") = {1, 2}
    /\ \E c \in 1..Len(deptHeat.months) :
          /\ InactiveOn(2, MonthNumber(deptHeat.months[c]))
          /\ deptHeat.rows[1].total.cells[c].hours.n > 0
          /\ JMul(deptHeat.rows[1].total.cells[c].util, Int2Num(280))
                = deptHeat.rows[1].total.cells[c].hours

\* total hours of the roster persons J on project k over the matrix columns:
\* baseMonthlyHours*allocPct/100 over the months of the project that pass the
\* date filter and in which the person is a member with a positive allocation
HoursOnProject(J, k) ==
    LET p == projects[k]
        I(j) == {i \in 1..Len(p.months) :
                    /\ Included(CalMonth(p, i), filter)
                    /\ roster[j].id \in p.memberIds
                    /\ HasPositiveAlloc(p.months[i], roster[j].id)}
    IN  SumOver(J, [j \in J |->
            SumOver(I(j), [i \in I(j) |-> PersonHours(roster, p.months[i], j)])])

\* the breakdown `by` of the subject J has one row for each project on which
\* J has hours, and no other row
BreakdownIs(by, J) ==
    /\ \A k \in 1..Len(projects) :
          (\E x \in 1..Len(by) : by[x].project = projects[k].id)
          <=> HoursOnProject(J, k).n > 0
    /\ \A x \in 1..Len(by) :
          /\ by[x].totalHours.n > 0
          /\ \E k \in 1..Len(projects) :
                by[x].project = projects[k].id /\ by[x].totalHours = HoursOnProject(J, k)
          /\ \A y \in 1..Len(by) : by[y].project = by[x].project => y = x

\* C16: the per-project breakdown of a utilization row (person or department)
\* has a row for a project iff the subject's total hours on that project over
\* all matrix columns is > 0; a project with zero hours is omitted.
C16_BreakdownOnlyWithHours ==
    /\ pc = "heat" =>
          \A r \in 1..Len(heat.rows) :
              BreakdownIs(heat.rows[r].byProject,
                          {FindPerson(roster, heat.rows[r].person.id)})
    /\ pc = "deptHeat" =>
          \A r \in 1..Len(deptHeat.rows) :
              BreakdownIs(deptHeat.rows[r].byProject,
                          InDepartment(deptHeat.rows[r].department))

\* C16 witness: person 2 is a member of the first project with an explicit
\* 0 % in its only month and has hours on the second project: the row of
\* person 2 shows the second project alone
C16_Witness ==
    /\ pc = "heat"
    /\ Len(projects) = 2 /\ Len(projects[1].months) = 1
    /\ 2 \in projects[1].memberIds
    /\ 2 \in DOMAIN projects[1].months[1].personAllocations
    /\ projects[1].months[1].personAllocations[2] = Zero
    /\ \E r \in 1..Len(heat.rows) :
          /\ heat.rows[r].person.id = 2
          /\ Len(heat.rows[r].byProject) = 1
          /\ heat.rows[r].byProject[1].project = 2

\* C16 witness of a department: Ops has hours on the second project only
C16_WitnessDepartment ==
    /\ pc = "deptHeat"
    /\ Len(projects) = 2 /\ Len(projects[1].months) = 1
    /\ \E r \in 1..Len(deptHeat.rows) :
          /\ deptHeat.rows[r].department = "Ops"
          /\ Len(deptHeat.rows[r].byProject) = 1
          /\ deptHeat.rows[r].byProject[1].project = 2

(***************************************************************************)
(* projects/[id]/page.tsx : the editing handlers of the project detail     *)
(* page.  The page state is the project list `projects`, the roster, and   *)
(* the state of the Add Personnel modal.  A page MonthRow carries its id   *)
(* and its label; a label is modelled by the calendar month it names.      *)
(* The debounced save of the page writes the edited project to the         *)
(* repository and reads nothing back; the repository is not part of the    *)
(* page state.                                                             *)
(***************************************************************************)
\* the text toLocaleString gives for an invalid Date
InvalidDate == [valid |-> FALSE, month |-> 0, year |-> 0]

\* storage.ts labelFromISO: the short month name and the numeric year of
\* new Date(y, m0 + index, 1); Number(undefined) is NaN when the text has
\* no "-", and the Date is invalid
labelFromISO(startISO, index) ==
    LET parts == SplitDash(startISO)
    IN  IF Len(parts) < 2 THEN InvalidDate
        ELSE LET y == NumberOfDigits(parts[1])
                 m0 == NumberOfDigits(parts[2]) - 1
             IN  [valid |-> TRUE,
                  month |-> ((m0 + index) % 12) + 1,
                  year |-> DateYear(y) + ((m0 + index) \div 12)]

\* storage.ts createProject({ name }), with uuid() giving projId and monthId,
\* currentMonthISO() giving start and Date.now() giving now
createProject(name, projId, monthId, start, now) ==
    [id |-> projId, name |-> name,
     overheadPerHour |-> Int2Num(15), targetMarginPct |-> Fin(35, 100),
     startMonthISO |-> start, memberIds |-> {},
     months |-> << [id |-> monthId, label |-> labelFromISO(start, 0),
                    personAllocations |-> <<>>,
                    expenses |-> Zero, revenue |-> Zero] >>,
     updatedAt |-> now]

\* projects.findIndex((x) => x.id === id), counted from 1; 0 stands for -1
ProjectIndex(projs, id) ==
    IF \E i \in 1..Len(projs) : projs[i].id = id
    THEN Min({i \in 1..Len(projs) : projs[i].id = id})
    ELSE 0

\* storage.ts upsertProject, with Date.now() giving now
upsertProject(p, projs, now) ==
    LET stamped == [p EXCEPT !.updatedAt = now]
        idx == ProjectIndex(projs, p.id)
    IN  IF idx = 0 THEN <<stamped>> \o projs
        ELSE [projs EXCEPT ![idx] = stamped]

\* the id in the URL of the page
projectId == 1

\* updateProject: the project of the page, curr, is replaced by
\* mutated = mutator(curr); without a project of that id the list is kept
updateProject(mutated, now) ==
    IF ProjectIndex(projects, projectId) = 0 THEN projects
    ELSE upsertProject(mutated, projects, now)

\* the mutator of addMonth; crypto.randomUUID() gives newId
addMonthOf(prev, newId) ==
    LET n == Len(prev.months)
        copy == [id |-> newId,
                 label |-> labelFromISO(prev.startMonthISO, n),
                 personAllocations |->
                     IF n = 0 THEN <<>> ELSE prev.months[n].personAllocations,
                 expenses |-> IF n = 0 THEN Zero ELSE prev.months[n].expenses,
                 revenue |-> IF n = 0 THEN Zero ELSE prev.months[n].revenue]
    IN  [prev EXCEPT !.months = Append(@, copy)]

\* { ...allocs, [pid]: v }
WithAlloc(allocs, pid, v) ==
    [i \in DOMAIN allocs \cup {pid} |-> IF i = pid THEN v ELSE allocs[i]]

\* mutant: the value is stored as it is given
setAllocOf_NoClamp(prev, monthId, personId, value) ==
    [prev EXCEPT !.months =
        [i \in DOMAIN @ |->
            IF @[i].id = monthId
            THEN [@[i] EXCEPT !.personAllocations = WithAlloc(@, personId, value)]
            ELSE @[i]]]

\* the mutator of setAlloc
setAllocOf(prev, monthId, personId, value) ==
    [prev EXCEPT !.months =
        [i \in DOMAIN @ |->
            IF @[i].id = monthId
            THEN [@[i] EXCEPT !.personAllocations =
                                  WithAlloc(@, personId, clamp(value, Zero, Int2Num(100)))]
            ELSE @[i]]]

\* the mutator of setExpense
setExpenseOf(prev, monthId, value) ==
    [prev EXCEPT !.months =
        [i \in DOMAIN @ |->
            IF @[i].id = monthId
            THEN [@[i] EXCEPT !.expenses = toNumber(value, Zero)]
            ELSE @[i]]]

\* the mutator of setRevenue
setRevenueOf(prev, monthId, value) ==
    [prev EXCEPT !.months =
        [i \in DOMAIN @ |->
            IF @[i].id = monthId
            THEN [@[i] EXCEPT !.revenue = toNumber(value, Zero)]
            ELSE @[i]]]

\* months.map((m, i) => ({ ...m, label: labelFromISO(start, i) })); the
\* index i of the code counts from 0
Relabel(months, start) ==
    [i \in DOMAIN months |->
        [months[i] EXCEPT !.label = labelFromISO(start, i - 1)]]

\* mutant: the remaining months keep their labels
removeMonthOf_NoRelabel(prev, monthId) ==
    [prev EXCEPT !.months = SelectSeq(@, LAMBDA m : m.id # monthId)]

\* the mutator of removeMonth
removeMonthOf(prev, monthId) ==
    [prev EXCEPT !.months =
        Relabel(SelectSeq(@, LAMBDA m : m.id # monthId), prev.startMonthISO)]

\* const { [pid]: _drop, ...rest } = allocs
WithoutAlloc(allocs, pid) == [i \in DOMAIN allocs \ {pid} |-> allocs[i]]

\* mutant: the allocations of the removed member stay in the months
removeMemberOf_KeepAllocations(prev, personId) ==
    [prev EXCEPT !.memberIds = @ \ {personId}]

\* the mutator of removeMember
removeMemberOf(prev, personId) ==
    [prev EXCEPT !.memberIds = @ \ {personId},
                 !.months = [i \in DOMAIN @ |->
                     [@[i] EXCEPT !.personAllocations = WithoutAlloc(@, personId)]]]

\* the mutator of applyAddPersonnel: a selected id without an entry gets 0
applyAddPersonnelOf(prev, selectedIds) ==
    [prev EXCEPT !.memberIds = selectedIds,
                 !.months = [i \in DOMAIN @ |->
                     [@[i] EXCEPT !.personAllocations =
                         [j \in DOMAIN @ \cup selectedIds |->
                             IF j \in DOMAIN @ /\ @[j].k # "undef" THEN @[j] ELSE Zero]]]]

\* the mutator of the start month input
setStartMonthOf(prev, v) ==
    [prev EXCEPT !.startMonthISO = v, !.months = Relabel(@, v)]

(***************************************************************************)
(* SpecPage : the project detail page of a project made by createProject   *)
(***************************************************************************)
\* the roster of the page: persons 1 and 2 are active, person 3 is inactive
PageRoster ==
    [i \in {1, 2, 3} |-> UtilPerson(i, "Engineering", i # 3)]

\* the ids uuid() and crypto.randomUUID() draw the months' ids from
MonthIds == 1..MaxMonths

\* the values Date.now() takes while the page is edited; the projects were
\* made at time 1
Times == {2}

\* the project that is in the list before the new one is made
OtherProject ==
    [id |-> 2, name |-> "Project 1",
     overheadPerHour |-> Int2Num(15), targetMarginPct |-> Fin(35, 100),
     startMonthISO |-> StartB, memberIds |-> {1, 2},
     months |-> << [id |-> 1, label |-> labelFromISO(StartB, 0),
                    personAllocations |-> (1 :> Int2Num(50)) @@ (2 :> Int2Num(50)),
                    expenses |-> Int2Num(1000), revenue |-> Int2Num(5000)] >>,
     updatedAt |-> 1]

\* the texts typed into an allocation input, by the number they denote;
\* NonNumeric is a text that is not a number
AllocInputs == {Int2Num(-5), Int2Num(150), NonNumeric}

\* the texts typed into the expenses and the revenue inputs
ExpenseInputs == {Int2Num(500), NonNumeric}

RevenueInputs == {Int2Num(5000), NonNumeric}

\* the values of the start month input; <<>> is the cleared input
StartInputs == {StartB, StartC, <<>>}

\* the handler that ran last; personId is 0 for a handler without one
Called(op, personId) == [op |-> op, personId |-> personId]

\* the project of the page: projects.find((x) => x.id === projectId)
CurrentProject == projects[ProjectIndex(projects, projectId)]

\* the rows of the page take their ids from the members: roster persons
\* whose id is in memberIds
MemberIdsShown ==
    {r.id : r \in SeqRange(Members(CurrentProject, roster))}

\* the people the Add Personnel modal lists: p.isActive !== false
ModalPeople == {roster[i].id : i \in {j \in DOMAIN roster : roster[j].isActive}}

\* the variables no handler of the page writes
PageUnchanged ==
    UNCHANGED <<pc, person, rate, people, month, overheadPerHour, stats,
                roster, project, totals, filter, rollup, projRollup,
                ymStart, ymIndex, ymResult, bucketYm,
                selectedPeople, heat, deptHeat, globalHours,
                   db, request, response,
                   hydrated, effectDue, saveTimer, timers, upserted,
                   weekState, order, sent,
                   prevWeek,
                   selectedDepartments>>

\* addProject of the projects page makes the project, then the detail page
\* is opened on it
InitPage ==
    /\ pc = "page"
    /\ roster = PageRoster
    /\ \E monthId \in MonthIds, start \in {StartB, StartC} :
          projects = upsertProject(
                         createProject("Project 2", projectId, monthId, start, 1),
                         <<OtherProject>>, 1)
    /\ showAddModal = FALSE
    /\ tempSelected = {}
    /\ call = Called("createProject", 0)
    /\ person = Idle /\ rate = Idle
    /\ people = Idle /\ month = Idle /\ overheadPerHour = Idle /\ stats = Idle
    /\ project = Idle /\ totals = Idle
    /\ filter = Idle /\ rollup = Idle /\ projRollup = Idle
    /\ ymStart = Idle /\ ymIndex = Idle /\ ymResult = Idle /\ bucketYm = Idle
    /\ selectedPeople = Idle /\ heat = Idle /\ deptHeat = Idle /\ globalHours = Idle
    /\ db = Idle /\ request = Idle /\ response = Idle
    /\ hydrated = Idle /\ effectDue = Idle /\ saveTimer = Idle /\ timers = Idle /\ upserted = Idle
    /\ weekState = Idle /\ order = Idle /\ sent = Idle
    /\ prevWeek = Idle
    /\ selectedDepartments = Idle

\* a handler of the page body runs while the modal does not cover the page
\* and puts mutated, its mutator applied to the project of the page, into
\* the list; Date.now() does not run backwards
Edit(op, personId, mutated) ==
    /\ showAddModal = FALSE
    /\ \E now \in {t \in Times : t >= CurrentProject.updatedAt} :
          projects' = updateProject(mutated, now)
    /\ call' = Called(op, personId)
    /\ UNCHANGED <<showAddModal, tempSelected,
                   db, request, response,
                   hydrated, effectDue, saveTimer, timers, upserted,
                   weekState, order, sent,
                   prevWeek,
                   selectedDepartments>>
    /\ PageUnchanged
    /\ db = Idle /\ request = Idle /\ response = Idle

\* the "Add Month (copy previous)" button
addMonth ==
    /\ Len(CurrentProject.months) < MaxMonths
    /\ \E newId \in MonthIds \ {m.id : m \in SeqRange(CurrentProject.months)} :
          Edit("addMonth", 0, addMonthOf(CurrentProject, newId))

\* onChange of the allocation input of a member in a month
setAlloc ==
    \E m \in SeqRange(CurrentProject.months), personId \in MemberIdsShown,
       text \in AllocInputs :
        Edit("setAlloc", 0,
             setAllocOf(CurrentProject, m.id, personId, toNumber(text, Zero)))

\* onChange of the expenses input of a month
setExpense ==
    \E m \in SeqRange(CurrentProject.months), text \in ExpenseInputs :
        Edit("setExpense", 0, setExpenseOf(CurrentProject, m.id, text))

\* onChange of the revenue input of a month
setRevenue ==
    \E m \in SeqRange(CurrentProject.months), text \in RevenueInputs :
        Edit("setRevenue", 0, setRevenueOf(CurrentProject, m.id, text))

\* the remove button of a month; nothing happens unless confirm() is accepted
removeMonth ==
    \E m \in SeqRange(CurrentProject.months), confirmed \in BOOLEAN :
        IF confirmed
        THEN Edit("removeMonth", 0, removeMonthOf(CurrentProject, m.id))
        ELSE showAddModal = FALSE /\ UNCHANGED vars

\* the remove button of a member
removeMember ==
    \E personId \in MemberIdsShown :
        Edit("removeMember", personId, removeMemberOf(CurrentProject, personId))

\* onChange of the start month input
setStartMonth ==
    \E v \in StartInputs :
        Edit("setStartMonth", 0, setStartMonthOf(CurrentProject, v))

\* the "Add Personnel" button
openAddPersonnel ==
    /\ showAddModal = FALSE
    /\ tempSelected' = CurrentProject.memberIds
    /\ showAddModal' = TRUE
    /\ call' = Called("openAddPersonnel", 0)
    /\ UNCHANGED projects
    /\ PageUnchanged

\* a checkbox of the modal
toggleSelected ==
    /\ showAddModal = TRUE
    /\ \E id \in ModalPeople, checked \in BOOLEAN :
          tempSelected' = IF checked THEN tempSelected \cup {id}
                          ELSE tempSelected \ {id}
    /\ call' = Called("toggleSelected", 0)
    /\ UNCHANGED <<projects, showAddModal,
                   db, request, response,
                   hydrated, effectDue, saveTimer, timers, upserted,
                   weekState, order, sent,
                   prevWeek,
                   selectedDepartments>>
    /\ PageUnchanged

\* the Cancel button, the close button and the backdrop of the modal
closeAddPersonnel ==
    /\ showAddModal = TRUE
    /\ showAddModal' = FALSE
    /\ call' = Called("closeAddPersonnel", 0)
    /\ UNCHANGED <<projects, tempSelected,
                   db, request, response,
                   hydrated, effectDue, saveTimer, timers, upserted,
                   weekState, order, sent,
                   prevWeek,
                   selectedDepartments>>
    /\ PageUnchanged

\* the "Add selected" button of the modal
applyAddPersonnel ==
    /\ showAddModal = TRUE
    /\ \E now \in {t \in Times : t >= CurrentProject.updatedAt} :
          projects' = updateProject(
                          applyAddPersonnelOf(CurrentProject, tempSelected), now)
    /\ showAddModal' = FALSE
    /\ call' = Called("applyAddPersonnel", 0)
    /\ UNCHANGED tempSelected
    /\ PageUnchanged

NextPage ==
    \/ addMonth
    \/ setAlloc
    \/ removeMonth
    \/ removeMember
    \/ openAddPersonnel
    \/ toggleSelected
    \/ closeAddPersonnel
    \/ applyAddPersonnel

SpecPage == InitPage /\ [][NextPage]_vars

(***************************************************************************)
(* SpecEdit : the page after the first edits.  The project has got its two *)
(* members and a second month, and person 1 stands at 100 % in the first   *)
(* month and person 2 at 100 % in the second (SpecPage reaches this state  *)
(* by applyAddPersonnel, addMonth and setAlloc).  From there the months,   *)
(* the start month, the money fields and the members are edited.           *)
(***************************************************************************)
EditedProject ==
    [createProject("Project 2", projectId, 1, StartC, 1) EXCEPT
        !.memberIds = {1, 2},
        !.months =
            << [id |-> 1, label |-> labelFromISO(StartC, 0),
                personAllocations |-> (1 :> Int2Num(100)) @@ (2 :> Zero),
                expenses |-> Zero, revenue |-> Zero],
               [id |-> 2, label |-> labelFromISO(StartC, 1),
                personAllocations |-> (1 :> Zero) @@ (2 :> Int2Num(100)),
                expenses |-> Zero, revenue |-> Zero] >>,
        !.updatedAt = 2]

InitEdit ==
    /\ pc = "page"
    /\ roster = PageRoster
    /\ projects = <<EditedProject, OtherProject>>
    /\ showAddModal = FALSE
    /\ tempSelected = {1, 2}
    /\ call = Called("setAlloc", 0)
    /\ person = Idle /\ rate = Idle
    /\ people = Idle /\ month = Idle /\ overheadPerHour = Idle /\ stats = Idle
    /\ project = Idle /\ totals = Idle
    /\ filter = Idle /\ rollup = Idle /\ projRollup = Idle
    /\ ymStart = Idle /\ ymIndex = Idle /\ ymResult = Idle /\ bucketYm = Idle
    /\ selectedPeople = Idle /\ heat = Idle /\ deptHeat = Idle /\ globalHours = Idle
    /\ db = Idle /\ request = Idle /\ response = Idle
    /\ hydrated = Idle /\ effectDue = Idle /\ saveTimer = Idle /\ timers = Idle /\ upserted = Idle
    /\ weekState = Idle /\ order = Idle /\ sent = Idle
    /\ prevWeek = Idle
    /\ selectedDepartments = Idle

NextEdit ==
    \/ addMonth
    \/ removeMonth
    \/ setStartMonth
    \/ setExpense
    \/ setRevenue
    \/ removeMember

SpecEdit == InitEdit /\ [][NextEdit]_vars

(***************************************************************************)
(* Claims about the project detail page                                    *)
(***************************************************************************)
\* v is a number from 0 to 100
IsPercent(v) == IsFin(v) /\ JLe(Zero, v) /\ JLe(v, Int2Num(100))

\* the values of the personAllocations of the months of project p
AllocationValues(p) ==
    UNION {{p.months[i].personAllocations[j] :
                j \in DOMAIN p.months[i].personAllocations} :
           i \in 1..Len(p.months)}

\* C17: starting from a project made by createProject, after any sequence
\* of setAlloc (whatever is typed into the input), addMonth, removeMonth,
\* removeMember and applyAddPersonnel, every value in every month's
\* personAllocations is a number from 0 to 100
C17_AllocationsWithinRange ==
    pc = "page" => \A v \in AllocationValues(CurrentProject) : IsPercent(v)

\* setAlloc has just run, and the months hold a 100 and a 0 although only
\* -5, 50, 150 and a non-number were typed, next to an entry that
\* applyAddPersonnel or addMonth made
C17_Witness ==
    /\ pc = "page"
    /\ call.op = "setAlloc"
    /\ Int2Num(100) \in AllocationValues(CurrentProject)
    /\ Zero \in AllocationValues(CurrentProject)
    /\ Len(CurrentProject.months) > 1

\* the project of the page after the step
CurrentProjectAfter == projects'[ProjectIndex(projects', projectId)]

\* the personAllocations a, without the entry of pid
AllocationsWithout(a, pid) == [j \in DOMAIN a \ {pid} |-> a[j]]

\* C19: removeMember(personId) takes personId out of memberIds and deletes
\* personId's entry from the personAllocations of every month; the other
\* members, the other persons' allocations, each month's expenses, revenue,
\* id and label, the name, the cost settings and the start month of the
\* project, and every other project stay as they were.  (upsertProject
\* stamps the updatedAt of the edited project; the stamp is no part of the
\* statement.)
C19_RemoveMemberFrame ==
    [][ call'.op = "removeMember" =>
          LET before == CurrentProject
              after == CurrentProjectAfter
              pid == call'.personId
          IN  /\ pid \in before.memberIds
              /\ after.memberIds = before.memberIds \ {pid}
              /\ Len(after.months) = Len(before.months)
              /\ \A i \in 1..Len(before.months) :
                    /\ after.months[i].personAllocations =
                         AllocationsWithout(before.months[i].personAllocations, pid)
                    /\ after.months[i].expenses = before.months[i].expenses
                    /\ after.months[i].revenue = before.months[i].revenue
                    /\ after.months[i].id = before.months[i].id
                    /\ after.months[i].label = before.months[i].label
              /\ after.id = before.id
              /\ after.name = before.name
              /\ after.overheadPerHour = before.overheadPerHour
              /\ after.targetMarginPct = before.targetMarginPct
              /\ after.startMonthISO = before.startMonthISO
              /\ Len(projects') = Len(projects)
              /\ \A k \in 1..Len(projects) :
                    projects[k].id # projectId => projects'[k] = projects[k]
      ]_vars

\* removeMember(1) has run on a project of two members and two months that
\* differ in expenses and in revenue: person 2 is still a member and still
\* has an allocation, person 1 has none
C19_Witness ==
    /\ pc = "page"
    /\ call = Called("removeMember", 1)
    /\ CurrentProject.memberIds = {2}
    /\ Len(CurrentProject.months) = 2
    /\ \A i \in 1..2 : DOMAIN CurrentProject.months[i].personAllocations = {2}
    /\ CurrentProject.months[1].expenses # CurrentProject.months[2].expenses
    /\ CurrentProject.months[1].revenue # CurrentProject.months[2].revenue
    /\ CurrentProject.months[1].personAllocations[2]
         # CurrentProject.months[2].personAllocations[2]

\* the label of the calendar month after the one label a names
NextLabel(a) ==
    [valid |-> TRUE,
     month |-> IF a.month = 12 THEN 1 ELSE a.month + 1,
     year |-> IF a.month = 12 THEN a.year + 1 ELSE a.year]

\* the months of p are labelled labelFromISO(startMonthISO, i), i from 0
Aligned(p) ==
    \A i \in 1..Len(p.months) :
        p.months[i].label = labelFromISO(p.startMonthISO, i - 1)

\* for a start month "YYYY-MM" the first label names that month and every
\* further label names the calendar month after the one before it
GapFree(p) ==
    Len(SplitDash(p.startMonthISO)) = 2 =>
        /\ Len(p.months) > 0 =>
              p.months[1].label = [valid |-> TRUE,
                                   month |-> MonthOf(p.startMonthISO),
                                   year |-> YearOf(p.startMonthISO)]
        /\ \A i \in 2..Len(p.months) :
              p.months[i].label = NextLabel(p.months[i - 1].label)

\* a step of addMonth appends one month that has the allocations, the
\* expenses and the revenue of the month that was last, and leaves the
\* earlier months as they were
AddMonthAppendsCopy ==
    call'.op = "addMonth" =>
        LET before == CurrentProject.months
            after == CurrentProjectAfter.months
            n == Len(before)
        IN  /\ Len(after) = n + 1
            /\ \A i \in 1..n : after[i] = before[i]
            /\ after[n + 1].id \notin {before[i].id : i \in 1..n}
            /\ n > 0 =>
                  /\ after[n + 1].personAllocations = before[n].personAllocations
                  /\ after[n + 1].expenses = before[n].expenses
                  /\ after[n + 1].revenue = before[n].revenue
            /\ n = 0 =>
                  /\ after[n + 1].personAllocations = <<>>
                  /\ after[n + 1].expenses = Zero
                  /\ after[n + 1].revenue = Zero

\* C20: after any sequence of addMonth, removeMonth and start month
\* changes the month at index i has the label labelFromISO(startMonthISO, i),
\* so that the labels run through consecutive calendar months from the
\* start month; addMonth appends one month that copies the last month's
\* allocations, expenses and revenue and leaves the earlier months unchanged
C20_MonthsAligned ==
    /\ [](pc = "page" => Aligned(CurrentProject) /\ GapFree(CurrentProject))
    /\ [][AddMonthAppendsCopy]_vars

\* addMonth has just run after the first month was removed, the start month
\* was set to 2024-12 and the expenses of the remaining month were set: the
\* new month is labelled Jan 2025 and has the allocations and the expenses
\* of the month before it
C20_Witness ==
    /\ pc = "page"
    /\ call.op = "addMonth"
    /\ CurrentProject.startMonthISO = StartB
    /\ Len(CurrentProject.months) = 2
    /\ CurrentProject.months[1].id = 2
    /\ CurrentProject.months[2].label = [valid |-> TRUE, month |-> 1, year |-> 2025]
    /\ CurrentProject.months[2].expenses = Int2Num(500)
    /\ CurrentProject.months[2].personAllocations =
           (1 :> Zero) @@ (2 :> Int2Num(100))

(***************************************************************************)
(* api/projects/route.ts, api/projects/[id]/route.ts, the roster route and *)
(* the Zod schemas.  A JSON value is a record tagged by its type; a        *)
(* validation yields the set of its issues, each [path, code]; safeParse   *)
(* succeeds when there is none.  The tables of the database are sets of    *)
(* rows.  The primary keys and the foreign keys are those of the           *)
(* migrations; the Prisma schema is not among the sources, so whether the  *)
(* database accepts a transaction that meets them is left open.            *)
(***************************************************************************)
JString(s) == [t |-> "string", s |-> s]

JNumber(x) == [t |-> "number", x |-> x]

JBoolean(b) == [t |-> "boolean", b |-> b]

JUndefined == [t |-> "undefined"]

JArray(items) == [t |-> "array", items |-> items]

JObject(f) == [t |-> "object", f |-> f]

\* obj[key] of a JSON object; undefined for a key that is not there
Field(obj, key) == IF key \in DOMAIN obj.f THEN obj.f[key] ELSE JUndefined

Issue(path, code) == [path |-> path, code |-> code]

\* z.string().min(1)
ZStringMin1(v, path) ==
    IF v.t # "string" THEN {Issue(path, "invalid_type")}
    ELSE IF v.s = "" THEN {Issue(path, "too_small")}
    ELSE {}

\* z.string()
ZString(v, path) ==
    IF v.t = "string" THEN {} ELSE {Issue(path, "invalid_type")}

\* z.string().default("") and z.string().optional()
ZStringOptional(v, path) ==
    IF v.t \in {"string", "undefined"} THEN {} ELSE {Issue(path, "invalid_type")}

\* z.number()
ZNumber(v, path) ==
    IF v.t = "number" /\ IsFin(v.x) THEN {} ELSE {Issue(path, "invalid_type")}

\* z.number().optional()
ZNumberOptional(v, path) ==
    IF v.t = "undefined" THEN {} ELSE ZNumber(v, path)

\* z.number().int().optional()
ZIntOptional(v, path) ==
    IF v.t = "undefined" THEN {}
    ELSE IF ZNumber(v, path) # {} THEN ZNumber(v, path)
    ELSE IF v.x.d # 1 THEN {Issue(path, "invalid_type")}
    ELSE {}

\* z.number().int().nonnegative()
ZIntNonnegative(v, path) ==
    IF ZNumber(v, path) # {} THEN ZNumber(v, path)
    ELSE (IF v.x.d # 1 THEN {Issue(path, "invalid_type")} ELSE {})
         \cup (IF v.x.n < 0 THEN {Issue(path, "too_small")} ELSE {})

\* z.boolean().default(true)
ZBooleanOptional(v, path) ==
    IF v.t \in {"boolean", "undefined"} THEN {} ELSE {Issue(path, "invalid_type")}

\* z.enum(values)
ZEnum(v, values, path) ==
    IF v.t = "string" /\ v.s \in values THEN {}
    ELSE {Issue(path, "invalid_enum_value")}

\* z.enum(values).optional()
ZEnumOptional(v, values, path) ==
    IF v.t = "undefined" THEN {} ELSE ZEnum(v, values, path)

\* the path of element i of an array at path; the code counts from 0
ItemPath(path, i) == Append(path, ToString(i - 1))

\* z.array(z.string())
ZArrayOfStrings(v, path) ==
    IF v.t # "array" THEN {Issue(path, "invalid_type")}
    ELSE UNION {ZString(v.items[i], ItemPath(path, i)) : i \in 1..Len(v.items)}

\* z.record(z.string(), z.number())
ZRecordOfNumbers(v, path) ==
    IF v.t # "object" THEN {Issue(path, "invalid_type")}
    ELSE UNION {ZNumber(v.f[key], Append(path, key)) : key \in DOMAIN v.f}

PersonTypeSchema ==
    {"Full-Time", "FT Resource", "Part-Time", "PT Resource", "Contractor"}

DepartmentSchema ==
    {"C-Suite", "BD", "Marketing", "Product", "Engineering", "Ops", "Software",
     "Admin", "Other"}

FTCompModeSchema == {"monthly", "annual"}

ProjectStatusSchema == {"Test", "BD", "Active", "Completed", "Cancelled"}

RosterPersonSchema(v, path) ==
    IF v.t # "object" THEN {Issue(path, "invalid_type")}
    ELSE ZStringMin1(Field(v, "id"), Append(path, "id"))
         \cup ZStringMin1(Field(v, "name"), Append(path, "name"))
         \cup ZEnum(Field(v, "personType"), PersonTypeSchema, Append(path, "personType"))
         \cup ZEnum(Field(v, "department"), DepartmentSchema, Append(path, "department"))
         \cup ZEnumOptional(Field(v, "compMode"), FTCompModeSchema, Append(path, "compMode"))
         \cup ZIntOptional(Field(v, "monthlySalary"), Append(path, "monthlySalary"))
         \cup ZIntOptional(Field(v, "annualSalary"), Append(path, "annualSalary"))
         \cup ZNumberOptional(Field(v, "hourlyRate"), Append(path, "hourlyRate"))
         \cup ZIntNonnegative(Field(v, "baseMonthlyHours"), Append(path, "baseMonthlyHours"))
         \cup ZBooleanOptional(Field(v, "isActive"), Append(path, "isActive"))
         \cup ZStringOptional(Field(v, "inactiveDate"), Append(path, "inactiveDate"))

MonthRowSchema(v, path) ==
    IF v.t # "object" THEN {Issue(path, "invalid_type")}
    ELSE ZStringMin1(Field(v, "id"), Append(path, "id"))
         \cup ZStringMin1(Field(v, "label"), Append(path, "label"))
         \cup ZRecordOfNumbers(Field(v, "personAllocations"), Append(path, "personAllocations"))
         \cup ZNumber(Field(v, "expenses"), Append(path, "expenses"))
         \cup ZNumber(Field(v, "revenue"), Append(path, "revenue"))

\* z.array(MonthRowSchema)
MonthListSchema(v, path) ==
    IF v.t # "array" THEN {Issue(path, "invalid_type")}
    ELSE UNION {MonthRowSchema(v.items[i], ItemPath(path, i)) : i \in 1..Len(v.items)}

ProjectSchema(v, path) ==
    IF v.t # "object" THEN {Issue(path, "invalid_type")}
    ELSE ZStringMin1(Field(v, "id"), Append(path, "id"))
         \cup ZStringMin1(Field(v, "name"), Append(path, "name"))
         \cup ZStringOptional(Field(v, "description"), Append(path, "description"))
         \cup ZStringOptional(Field(v, "status"), Append(path, "status"))
         \cup ZEnum(Field(v, "projectStatus"), ProjectStatusSchema, Append(path, "projectStatus"))
         \cup ZNumber(Field(v, "overheadPerHour"), Append(path, "overheadPerHour"))
         \cup ZNumber(Field(v, "targetMarginPct"), Append(path, "targetMarginPct"))
         \cup ZStringMin1(Field(v, "startMonthISO"), Append(path, "startMonthISO"))
         \cup ZArrayOfStrings(Field(v, "memberIds"), Append(path, "memberIds"))
         \cup MonthListSchema(Field(v, "months"), Append(path, "months"))
         \cup ZNumberOptional(Field(v, "updatedAt"), Append(path, "updatedAt"))

\* z.array(ProjectSchema)
ProjectListSchema(v, path) ==
    IF v.t # "array" THEN {Issue(path, "invalid_type")}
    ELSE UNION {ProjectSchema(v.items[i], ItemPath(path, i)) : i \in 1..Len(v.items)}

\* z.array(RosterPersonSchema)
RosterListSchema(v, path) ==
    IF v.t # "array" THEN {Issue(path, "invalid_type")}
    ELSE UNION {RosterPersonSchema(v.items[i], ItemPath(path, i)) : i \in 1..Len(v.items)}

\* v ?? fb for a string field of parsed data
StringOr(v, fb) == IF v.t = "string" THEN v.s ELSE fb

\* the Project row tx.project.create writes in api/projects/route.ts: the
\* parsed data has no projectType (Zod strips unknown keys), so "Active" is
\* written; projectStatus is left to the database
CreatedProjectRow(p) ==
    [id |-> Field(p, "id").s,
     name |-> Field(p, "name").s,
     description |-> StringOr(Field(p, "description"), ""),
     status |-> StringOr(Field(p, "status"), ""),
     projectType |-> "Active",
     projectStatus |-> "",
     overheadPerHour |-> Field(p, "overheadPerHour").x,
     targetMarginPct |-> Field(p, "targetMarginPct").x,
     startMonthISO |-> Field(p, "startMonthISO").s]

\* the Project row after tx.project.update of api/projects/[id]/route.ts
UpdatedProjectRow(row, p) ==
    [row EXCEPT !.name = Field(p, "name").s,
                !.description = StringOr(Field(p, "description"), ""),
                !.status = StringOr(Field(p, "status"), ""),
                !.projectStatus = Field(p, "projectStatus").s,
                !.overheadPerHour = Field(p, "overheadPerHour").x,
                !.targetMarginPct = Field(p, "targetMarginPct").x,
                !.startMonthISO = Field(p, "startMonthISO").s]

\* the ProjectMember rows of project p
MemberRowsOf(p) ==
    LET ids == Field(p, "memberIds").items
    IN  {[projectId |-> Field(p, "id").s, personId |-> ids[i].s] : i \in 1..Len(ids)}

\* the Month rows of project p
MonthRowsOf(p) ==
    LET ms == Field(p, "months").items
    IN  {[id |-> Field(ms[i], "id").s,
          projectId |-> Field(p, "id").s,
          index |-> i - 1,
          label |-> Field(ms[i], "label").s,
          expenses |-> Field(ms[i], "expenses").x,
          revenue |-> Field(ms[i], "revenue").x] : i \in 1..Len(ms)}

\* the Allocation rows of project p; the id is `${m.id}:${personId}`
AllocationRowsOf(p) ==
    LET ms == Field(p, "months").items
    IN  UNION {{[id |-> <<Field(ms[i], "id").s, key>>,
                 monthId |-> Field(ms[i], "id").s,
                 personId |-> key,
                 allocationPct |-> Field(ms[i], "personAllocations").f[key].x] :
                    key \in DOMAIN Field(ms[i], "personAllocations").f} :
               i \in 1..Len(ms)}

\* the RosterPerson row of person r
RosterRowOf(r) ==
    [id |-> Field(r, "id").s,
     name |-> Field(r, "name").s,
     personType |-> Field(r, "personType").s,
     department |-> Field(r, "department").s,
     compMode |-> Field(r, "compMode"),
     monthlySalary |-> Field(r, "monthlySalary"),
     annualSalary |-> Field(r, "annualSalary"),
     hourlyRate |-> Field(r, "hourlyRate"),
     baseMonthlyHours |-> Field(r, "baseMonthlyHours").x,
     isActive |-> IF Field(r, "isActive").t = "boolean"
                  THEN Field(r, "isActive").b ELSE TRUE,
     inactiveDate |-> Field(r, "inactiveDate")]

\* the ids of the months of the projects of a list, one for each month
MonthIdsOf(ps) ==
    UNION {{<<i, j>> : j \in 1..Len(Field(ps[i], "months").items)} : i \in 1..Len(ps)}

\* creating the projects of the list ps next to the rows of d meets no
\* primary key twice
KeysFree(d, ps) ==
    /\ \A i, j \in 1..Len(ps) :
          Field(ps[i], "id").s = Field(ps[j], "id").s => i = j
    /\ \A i \in 1..Len(ps) : Field(ps[i], "id").s \notin {r.id : r \in d.projects}
    /\ \A a, b \in MonthIdsOf(ps) :
          Field(Field(ps[a[1]], "months").items[a[2]], "id").s
            = Field(Field(ps[b[1]], "months").items[b[2]], "id").s => a = b
    /\ \A a \in MonthIdsOf(ps) :
          Field(Field(ps[a[1]], "months").items[a[2]], "id").s
            \notin {r.id : r \in d.months}

\* the person ids the members and the allocations of project p name
PersonRefsOf(p) ==
    {r.personId : r \in MemberRowsOf(p) \cup AllocationRowsOf(p)}

\* creating the members and allocations of the projects of the list ps next
\* to the rows of d meets no ProjectMember key twice and names only people
\* of RosterPerson (ProjectMember_personId_fkey, Allocation_personId_fkey)
RefsFree(d, ps) ==
    \A i \in 1..Len(ps) :
        /\ Cardinality(MemberRowsOf(ps[i])) = Len(Field(ps[i], "memberIds").items)
        /\ PersonRefsOf(ps[i]) \subseteq {r.id : r \in d.roster}

\* the people some ProjectMember, Allocation or TodoAssignee row points to:
\* their RosterPerson rows cannot be deleted (ON DELETE RESTRICT)
PeopleInUse(d) ==
    {r.personId : r \in d.members \cup d.allocations \cup d.assignees}

\* the database d with the projects of the list ps created in it
WithProjects(d, ps) ==
    [d EXCEPT
        !.projects = @ \cup {CreatedProjectRow(ps[i]) : i \in 1..Len(ps)},
        !.members = @ \cup UNION {MemberRowsOf(ps[i]) : i \in 1..Len(ps)},
        !.months = @ \cup UNION {MonthRowsOf(ps[i]) : i \in 1..Len(ps)},
        !.allocations = @ \cup UNION {AllocationRowsOf(ps[i]) : i \in 1..Len(ps)}]

\* the database d without the members, months and allocations of project id
WithoutRelations(d, id) ==
    [d EXCEPT
        !.members = {r \in @ : r.projectId # id},
        !.allocations =
            {r \in @ : r.monthId \notin {m.id : m \in {x \in d.months : x.projectId = id}}},
        !.months = {r \in @ : r.projectId # id}]

\* the database d without any project
WithoutProjects(d) ==
    [d EXCEPT !.projects = {}, !.members = {}, !.months = {}, !.allocations = {}]

NoIssues == [present |-> FALSE, list |-> {}]

\* NextResponse.json({ error: "Invalid payload", issues }, { status: 400 })
InvalidPayload(issues) ==
    [status |-> 400, error |-> "Invalid payload",
     issues |-> [present |-> TRUE, list |-> issues]]

\* NextResponse.json({ error: "Invalid payload" }, { status: 400 })
InvalidPayloadBare ==
    [status |-> 400, error |-> "Invalid payload", issues |-> NoIssues]

\* NextResponse.json({ ok: true }, { status })
Ok(status) == [status |-> status, error |-> "", issues |-> NoIssues]

\* NextResponse.json({ error }, { status: 500 }) of a catch block
Failed(error) == [status |-> 500, error |-> error, issues |-> NoIssues]

Req(method, route, id, body) ==
    [method |-> method, route |-> route, id |-> id, body |-> body]

\* the result <<response, database>> of a transaction: it commits when no
\* primary key is met twice and the database accepts the rows; otherwise
\* the error is caught and the transaction is rolled back
Transaction(keysFree, accepted, after, okStatus, error) ==
    IF keysFree /\ accepted THEN <<Ok(okStatus), after>> ELSE <<Failed(error), db>>

\* PUT /api/projects
putProjects(body, accepted) ==
    IF ProjectListSchema(body, <<>>) # {}
    THEN <<InvalidPayload(ProjectListSchema(body, <<>>)), db>>
    ELSE Transaction(KeysFree(WithoutProjects(db), body.items)
                         /\ RefsFree(db, body.items), accepted,
                     WithProjects(WithoutProjects(db), body.items),
                     200, "Failed to save projects")

\* POST /api/projects
postProject(body, accepted) ==
    IF ProjectSchema(body, <<>>) # {}
    THEN <<InvalidPayload(ProjectSchema(body, <<>>)), db>>
    ELSE Transaction(KeysFree(db, <<body>>) /\ RefsFree(db, <<body>>), accepted,
                     WithProjects(db, <<body>>),
                     201, "Failed to create project")

\* PUT /api/projects/[id]
putProject(id, body, accepted) ==
    IF ProjectSchema(body, <<>>) # {} \/ Field(body, "id").s # id
    THEN <<InvalidPayloadBare, db>>
    ELSE LET rest == WithoutRelations(db, id)
             others == [rest EXCEPT !.projects = {r \in @ : r.id # id}]
             after == [WithProjects(others, <<body>>) EXCEPT
                          !.projects = {IF r.id = id THEN UpdatedProjectRow(r, body)
                                        ELSE r : r \in db.projects}]
         IN  Transaction(/\ \E r \in db.projects : r.id = id
                         /\ KeysFree(others, <<body>>)
                         /\ RefsFree(db, <<body>>),
                         accepted, after, 200, "Failed to update project")

\* mutant: the months are sorted by falling index
SortedByIndex_Descending(rows) ==
    [i \in 1..Cardinality(rows) |->
        CHOOSE r \in rows : Cardinality({q \in rows : q.index > r.index}) = i - 1]

\* rows.sort((a, b) => a.index - b.index) for Month rows of one project,
\* whose indexes differ (Month_projectId_index_key)
SortedByIndex(rows) ==
    [i \in 1..Cardinality(rows) |->
        CHOOSE r \in rows : Cardinality({q \in rows : q.index < r.index}) = i - 1]

\* Object.fromEntries(m.allocations.map((a) => [a.personId, a.allocationPct]))
AllocationsOfMonth(d, monthId) ==
    LET rows == {a \in d.allocations : a.monthId = monthId}
    IN  [key \in {a.personId : a \in rows} |->
            (CHOOSE a \in rows : a.personId = key).allocationPct]

\* the Project a GET handler makes of a Project row with its members and
\* its months; the order of memberIds is the database's, so they are kept
\* as a set; updatedAt, the time of the row, is left out
ProjectOfRow(d, row) ==
    [id |-> row.id, name |-> row.name, description |-> row.description,
     status |-> row.status, projectStatus |-> row.projectStatus,
     projectType |-> row.projectType,
     overheadPerHour |-> row.overheadPerHour,
     targetMarginPct |-> row.targetMarginPct,
     startMonthISO |-> row.startMonthISO,
     memberIds |-> {m.personId : m \in {x \in d.members : x.projectId = row.id}},
     months |-> LET sorted == SortedByIndex({m \in d.months : m.projectId = row.id})
                IN  [i \in DOMAIN sorted |->
                        [id |-> sorted[i].id, label |-> sorted[i].label,
                         expenses |-> sorted[i].expenses,
                         revenue |-> sorted[i].revenue,
                         personAllocations |-> AllocationsOfMonth(d, sorted[i].id)]]]

\* NextResponse.json(result, { status: 200 })
Found(body) == [status |-> 200, error |-> "", issues |-> NoIssues, body |-> body]

\* NextResponse.json({ error: "Not found" }, { status: 404 })
NotFound == [status |-> 404, error |-> "Not found", issues |-> NoIssues]

\* GET /api/projects/[id] on the database d
getProject(d, id) ==
    IF \E r \in d.projects : r.id = id
    THEN Found(ProjectOfRow(d, CHOOSE r \in d.projects : r.id = id))
    ELSE NotFound

\* GET /api/projects on the database d
getProjects(d) == Found({ProjectOfRow(d, r) : r \in d.projects})

\* PUT /api/roster
putRoster(body, accepted) ==
    IF RosterListSchema(body, <<>>) # {}
    THEN <<InvalidPayload(RosterListSchema(body, <<>>)), db>>
    ELSE Transaction(/\ PeopleInUse(db) \cap {r.id : r \in db.roster} = {}
                     /\ \A i, j \in 1..Len(body.items) :
                           Field(body.items[i], "id").s = Field(body.items[j], "id").s
                               => i = j,
                     accepted,
                     [db EXCEPT !.roster =
                         {RosterRowOf(body.items[i]) : i \in 1..Len(body.items)}],
                     200, "Failed to save roster")

\* POST /api/roster
postRosterPerson(body, accepted) ==
    IF RosterPersonSchema(body, <<>>) # {}
    THEN <<InvalidPayload(RosterPersonSchema(body, <<>>)), db>>
    ELSE Transaction(Field(body, "id").s \notin {r.id : r \in db.roster},
                     accepted,
                     [db EXCEPT !.roster = @ \cup {RosterRowOf(body)}],
                     201, "Failed to create person")

(***************************************************************************)
(* SpecApi : the POST and PUT handlers of the API, serving requests        *)
(***************************************************************************)
\* a month body with one allocation
MonthJson(id, allocation) ==
    JObject([id |-> JString(id), label |-> JString("Jan 2025"),
             personAllocations |-> JObject([p1 |-> allocation]),
             expenses |-> JNumber(Zero), revenue |-> JNumber(Int2Num(5000))])

\* a project body; `more` holds the fields besides id, name and months
ProjectJson(id, name, months, more) ==
    JObject([id |-> JString(id), name |-> JString(name),
             months |-> JArray(months)] @@ more)

\* the remaining fields of a project as the schema wants them
ProjectFields ==
    [projectStatus |-> JString("Active"),
     overheadPerHour |-> JNumber(Int2Num(15)),
     targetMarginPct |-> JNumber(Fin(35, 100)),
     startMonthISO |-> JString("2025-01"),
     memberIds |-> JArray(<<JString("p1")>>)]

\* the remaining fields as a client of the older Project type sends them:
\* projectType in place of projectStatus
LegacyProjectFields ==
    [projectType |-> JString("Active"),
     overheadPerHour |-> JNumber(Int2Num(15)),
     targetMarginPct |-> JNumber(Fin(35, 100)),
     startMonthISO |-> JString("2025-01"),
     memberIds |-> JArray(<<JString("p1")>>)]

\* a month with its own label, expenses and allocations
MonthBody(id, label, allocations, expenses) ==
    JObject([id |-> JString(id), label |-> JString(label),
             personAllocations |-> JObject(allocations),
             expenses |-> JNumber(expenses), revenue |-> JNumber(Int2Num(5000))])

\* the remaining fields of a project of two members
TeamFields == [ProjectFields EXCEPT !.memberIds = JArray(<<JString("p2"), JString("p1")>>)]

\* project bodies that pass ProjectSchema
ValidProjects ==
    {ProjectJson("a", "Alpha", <<>>, ProjectFields),
     ProjectJson("a", "Alpha 3",
                 << MonthBody("m3", "Feb 2025",
                            [p1 |-> JNumber(Int2Num(50)), p2 |-> JNumber(Int2Num(25))],
                            Int2Num(100)),
                    MonthBody("m2", "Jan 2025", [p2 |-> JNumber(Zero)], Zero) >>,
                 TeamFields),
     ProjectJson("a", "Alpha 2", <<MonthJson("m1", JNumber(Int2Num(50)))>>, ProjectFields),
     ProjectJson("b", "Beta", <<MonthJson("m2", JNumber(Int2Num(150)))>>, ProjectFields),
     ProjectJson("b", "Beta 2", <<MonthJson("m1", JNumber(Int2Num(50)))>>, ProjectFields)}

\* project bodies that fail it: an empty name, an allocation given as a
\* text, a missing projectStatus, and a body that is no object
InvalidProjects ==
    {ProjectJson("a", "", <<>>, ProjectFields),
     ProjectJson("a", "Alpha", <<MonthJson("m1", JString("50"))>>, ProjectFields),
     ProjectJson("b", "Beta", <<>>, LegacyProjectFields),
     JString("a")}

ProjectBodies == ValidProjects \cup InvalidProjects

\* bodies of PUT /api/projects: lists of at most two projects, and a body
\* that is no list
ProjectListBodies ==
    {JArray(ps) : ps \in SeqsUpTo(ValidProjects, 2)}
    \cup {JArray(<<p, q>>) : p \in ValidProjects, q \in InvalidProjects}
    \cup {ProjectJson("a", "Alpha", <<>>, ProjectFields)}

\* the ids in the URL of /api/projects/[id]
UrlIds == {"a", "b"}

PersonJson(id, name, hours) ==
    JObject([id |-> JString(id), name |-> JString(name),
             personType |-> JString("Full-Time"),
             department |-> JString("Engineering"),
             baseMonthlyHours |-> hours])

ValidPersons ==
    {PersonJson("p1", "Ann", JNumber(Int2Num(160))),
     PersonJson("p2", "Bob", JNumber(Zero))}

\* person bodies that fail RosterPersonSchema: an empty name, negative
\* hours, hours that are no integer, a missing baseMonthlyHours
InvalidPersons ==
    {PersonJson("p1", "", JNumber(Int2Num(160))),
     PersonJson("p1", "Ann", JNumber(Int2Num(-1))),
     PersonJson("p2", "Bob", JNumber(Fin(1, 2))),
     PersonJson("p2", "Bob", JUndefined)}

PersonBodies == ValidPersons \cup InvalidPersons

RosterListBodies ==
    {JArray(ps) : ps \in SeqsUpTo(ValidPersons, 2)}
    \cup {JArray(<<p, q>>) : p \in ValidPersons, q \in InvalidPersons}
    \cup {PersonJson("p1", "Ann", JNumber(Int2Num(160)))}

InitApi ==
    /\ pc = "api"
    /\ db = [projects |-> {}, members |-> {}, months |-> {}, allocations |-> {},
             roster |-> {}, assignees |-> {}]
    /\ request = Req("GET", "/api/health", "", JUndefined)
    /\ response = Ok(200)
    /\ person = Idle /\ rate = Idle
    /\ people = Idle /\ month = Idle /\ overheadPerHour = Idle /\ stats = Idle
    /\ roster = Idle /\ project = Idle /\ totals = Idle
    /\ projects = Idle /\ filter = Idle /\ rollup = Idle /\ projRollup = Idle
    /\ ymStart = Idle /\ ymIndex = Idle /\ ymResult = Idle /\ bucketYm = Idle
    /\ selectedPeople = Idle /\ heat = Idle /\ deptHeat = Idle /\ globalHours = Idle
    /\ showAddModal = Idle /\ tempSelected = Idle /\ call = Idle
    /\ hydrated = Idle /\ effectDue = Idle /\ saveTimer = Idle /\ timers = Idle /\ upserted = Idle
    /\ weekState = Idle /\ order = Idle /\ sent = Idle
    /\ prevWeek = Idle
    /\ selectedDepartments = Idle

\* the request is answered with result[1] and the database becomes result[2]
Serve(req, result) ==
    /\ request' = req
    /\ response' = result[1]
    /\ db' = result[2]
    /\ UNCHANGED <<pc, person, rate, people, month, overheadPerHour, stats,
                   roster, project, totals, projects, filter, rollup, projRollup,
                   ymStart, ymIndex, ymResult, bucketYm,
                   selectedPeople, heat, deptHeat, globalHours,
                   showAddModal, tempSelected, call,
                   hydrated, effectDue, saveTimer, timers, upserted,
                   weekState, order, sent,
                   prevWeek,
                   selectedDepartments>>

PutProjects ==
    \E body \in ProjectListBodies, accepted \in BOOLEAN :
        Serve(Req("PUT", "/api/projects", "", body), putProjects(body, accepted))

PostProject ==
    \E body \in ProjectBodies, accepted \in BOOLEAN :
        Serve(Req("POST", "/api/projects", "", body), postProject(body, accepted))

PutProject ==
    \E id \in UrlIds, body \in ProjectBodies, accepted \in BOOLEAN :
        Serve(Req("PUT", "/api/projects/[id]", id, body), putProject(id, body, accepted))

PutRoster ==
    \E body \in RosterListBodies, accepted \in BOOLEAN :
        Serve(Req("PUT", "/api/roster", "", body), putRoster(body, accepted))

PostRosterPerson ==
    \E body \in PersonBodies, accepted \in BOOLEAN :
        Serve(Req("POST", "/api/roster", "", body), postRosterPerson(body, accepted))

GetProject ==
    \E id \in UrlIds :
        Serve(Req("GET", "/api/projects/[id]", id, JUndefined), <<getProject(db, id), db>>)

GetProjects ==
    Serve(Req("GET", "/api/projects", "", JUndefined), <<getProjects(db), db>>)

NextApi ==
    \/ PutProjects
    \/ PostProject
    \/ PutProject
    \/ PutRoster
    \/ PostRosterPerson
    \/ GetProject
    \/ GetProjects

SpecApi == InitApi /\ [][NextApi]_vars

(***************************************************************************)
(* Claims about the API                                                    *)
(***************************************************************************)
\* the issues Zod finds in the body of request r
IssuesOf(r) ==
    IF r.route = "/api/roster"
    THEN (IF r.method = "PUT" THEN RosterListSchema(r.body, <<>>)
          ELSE RosterPersonSchema(r.body, <<>>))
    ELSE IF r.route = "/api/projects" /\ r.method = "PUT"
    THEN ProjectListSchema(r.body, <<>>)
    ELSE ProjectSchema(r.body, <<>>)

\* the body of request r fails validation, or names another project than
\* the URL of /api/projects/[id]
Rejected(r) ==
    /\ r.method \in {"POST", "PUT"}
    /\ \/ IssuesOf(r) # {}
       \/ r.route = "/api/projects/[id]" /\ Field(r.body, "id").s # r.id

\* the step answers the request with 400 and the list of issues, and leaves
\* the tables as they were
AnsweredWithIssues ==
    /\ response'.status = 400
    /\ response'.issues.present
    /\ response'.issues.list = IssuesOf(request')
    /\ db' = db

\* C18: every POST or PUT to /api/projects, /api/projects/[id] and
\* /api/roster whose body fails Zod validation (for /api/projects/[id] also
\* a body whose id differs from the URL id) is answered with HTTP 400
\* carrying the list of validation issues, and leaves the stored projects,
\* months, allocations, members and roster unchanged
C18_InvalidAnsweredWithIssues ==
    [][Rejected(request') => AnsweredWithIssues]_vars

\* the same for the handlers other than PUT /api/projects/[id], and for
\* that handler without the list of issues
C18_InvalidAnswered400 ==
    [][Rejected(request') =>
          /\ response'.status = 400
          /\ db' = db
          /\ IF request'.route = "/api/projects/[id]"
             THEN ~response'.issues.present
             ELSE response'.issues.present /\ response'.issues.list = IssuesOf(request')
      ]_vars

(***************************************************************************)
(* SpecSave : the debounced save of the project detail page.  The page     *)
(* loads the lists, the money inputs of the months change the project,     *)
(* React runs the save effect after a render with a new projects list, and *)
(* the browser fires a timeout 600 ms after it was set.  A timeout is      *)
(* written as the project its callback closes over.                        *)
(***************************************************************************)
\* the save effect without its clearTimeout
saveEffectOf_NoClear(pending, ref, p) ==
    [timers |-> pending \cup {p}, saveTimer |-> {p}]

\* the body of the save effect for the project p of the render: the timeout
\* saveTimer.current is cleared, a new one is set and kept in saveTimer
saveEffectOf(pending, ref, p) ==
    [timers |-> (pending \ ref) \cup {p}, saveTimer |-> {p}]

\* what repo.loadProjects() may resolve to: the list with the project of the
\* page, or a list without it
LoadedProjects == {<<EditedProject, OtherProject>>, <<OtherProject>>}

\* projects.find((x) => x.id === projectId) finds a project
ProjectFound == ProjectIndex(projects, projectId) # 0

InitSave ==
    /\ pc = "page"
    /\ roster = <<>>
    /\ projects = <<>>
    /\ hydrated = FALSE
    /\ effectDue = FALSE
    /\ saveTimer = {}
    /\ timers = {}
    /\ upserted = {}
    /\ showAddModal = FALSE
    /\ tempSelected = {}
    /\ call = Called("mount", 0)
    /\ person = Idle /\ rate = Idle
    /\ people = Idle /\ month = Idle /\ overheadPerHour = Idle /\ stats = Idle
    /\ project = Idle /\ totals = Idle
    /\ filter = Idle /\ rollup = Idle /\ projRollup = Idle
    /\ ymStart = Idle /\ ymIndex = Idle /\ ymResult = Idle /\ bucketYm = Idle
    /\ selectedPeople = Idle /\ heat = Idle /\ deptHeat = Idle /\ globalHours = Idle
    /\ db = Idle /\ request = Idle /\ response = Idle
    /\ weekState = Idle /\ order = Idle /\ sent = Idle
    /\ prevWeek = Idle
    /\ selectedDepartments = Idle

\* the variables the save machinery leaves alone
SaveUnchanged ==
    UNCHANGED <<showAddModal, tempSelected,
                pc, person, rate, people, month, overheadPerHour, stats,
                roster, project, totals, filter, rollup, projRollup,
                ymStart, ymIndex, ymResult, bucketYm,
                selectedPeople, heat, deptHeat, globalHours,
                db, request, response,
                   weekState, order, sent,
                   prevWeek,
                   selectedDepartments>>

\* the load effect: both lists arrive, hydrated is set; a failed load only
\* logs and is no step
loadProjects ==
    /\ hydrated = FALSE
    /\ \E ps \in LoadedProjects : projects' = ps
    /\ roster' = PageRoster
    /\ hydrated' = TRUE
    /\ effectDue' = TRUE
    /\ call' = Called("load", 0)
    /\ UNCHANGED <<saveTimer, timers, upserted, showAddModal, tempSelected,
                   weekState, order, sent,
                   prevWeek,
                   selectedDepartments>>
    /\ UNCHANGED <<pc, person, rate, people, month, overheadPerHour, stats,
                   project, totals, filter, rollup, projRollup,
                   ymStart, ymIndex, ymResult, bucketYm,
                   selectedPeople, heat, deptHeat, globalHours,
                   db, request, response,
                   weekState, order, sent,
                   prevWeek,
                   selectedDepartments>>

\* a handler of the page gives setProjects a new list: here the expenses or
\* the revenue input of a month; the save effect of the render is due
changeProject ==
    /\ hydrated
    /\ ProjectFound
    /\ \E m \in SeqRange(CurrentProject.months),
          now \in {t \in Times : t >= CurrentProject.updatedAt} :
          \/ \E text \in ExpenseInputs :
                /\ projects' = updateProject(
                                   setExpenseOf(CurrentProject, m.id, text), now)
                /\ call' = Called("setExpense", 0)
          \/ \E text \in RevenueInputs :
                /\ projects' = updateProject(
                                   setRevenueOf(CurrentProject, m.id, text), now)
                /\ call' = Called("setRevenue", 0)
    /\ effectDue' = TRUE
    /\ UNCHANGED <<hydrated, saveTimer, timers, upserted,
                   weekState, order, sent,
                   prevWeek,
                   selectedDepartments>>
    /\ SaveUnchanged

\* React runs the save effect of the last render: nothing without the
\* project, else the timer is replaced
saveEffect ==
    /\ effectDue
    /\ effectDue' = FALSE
    /\ IF hydrated /\ ProjectFound
       THEN LET r == saveEffectOf(timers, saveTimer, CurrentProject)
            IN  timers' = r.timers /\ saveTimer' = r.saveTimer
       ELSE UNCHANGED <<timers, saveTimer,
                   weekState, order, sent,
                   prevWeek,
                   selectedDepartments>>
    /\ call' = Called("saveEffect", 0)
    /\ UNCHANGED <<projects, hydrated, upserted,
                   weekState, order, sent,
                   prevWeek,
                   selectedDepartments>>
    /\ SaveUnchanged

\* a timeout fires: its callback calls repo.upsertProject(p), which sends
\* PUT /api/projects/<p.id> with p as body
timeout ==
    /\ \E p \in timers :
          /\ timers' = timers \ {p}
          /\ upserted' = {p}
    /\ call' = Called("timeout", 0)
    /\ UNCHANGED <<projects, hydrated, effectDue, saveTimer,
                   weekState, order, sent,
                   prevWeek,
                   selectedDepartments>>
    /\ SaveUnchanged

NextSave ==
    \/ loadProjects
    \/ changeProject
    \/ saveEffect
    \/ timeout

\* React runs the effects of a committed render, and the browser fires a
\* timeout that is not cleared
SpecSave ==
    /\ InitSave
    /\ [][NextSave]_vars
    /\ WF_vars(saveEffect)
    /\ WF_vars(timeout)

\* the last save issued carries the project as it is now, and no timeout
\* is left
SavedCurrent == upserted = {CurrentProject} /\ timers = {}

\* after the save effect of the last change, the only timeout that can be
\* pending saves the project as it is now, and if none is pending the last
\* save issued carried that state
OnlyCurrentPending ==
    (pc = "page" /\ hydrated /\ ProjectFound /\ ~effectDue)
        => /\ timers \subseteq {CurrentProject}
           /\ timers = {} => upserted = {CurrentProject}

\* C21: the save is debounced: once the save effect of a change has run,
\* the one pending timeout is that of this change and carries its snapshot
\* of the project, so that no save of an earlier state can be issued after
\* the save of the final state; and once the handlers stop giving
\* setProjects new lists, a save carrying the final state of the project is
\* eventually issued and remains the last one
C21_DebouncedSave ==
    /\ []OnlyCurrentPending
    /\ (<>[][~changeProject]_vars)
          => <>[]((hydrated /\ ProjectFound /\ ~effectDue) => SavedCurrent)

\* the project was edited twice (expenses and revenue of a month), and the
\* last save issued carries both edits while no timeout is pending
C21_Witness ==
    /\ hydrated /\ ProjectFound /\ ~effectDue
    /\ SavedCurrent
    /\ \E i \in 1..Len(CurrentProject.months) :
          /\ CurrentProject.months[i].expenses = Int2Num(500)
          /\ CurrentProject.months[i].revenue = Int2Num(5000)

(***************************************************************************)
(* The to-do API (GET and PUT /api/todo).  A week key is a text, written   *)
(* as its character codes, and the database compares week keys code by     *)
(* code (SQLite TEXT).  The tables are sets of rows; Project and           *)
(* RosterPerson take part by their ids, which the foreign keys of          *)
(* ProjectWeek and TodoAssignee point to.                                  *)
(***************************************************************************)
\* the text "YYYY-MM-DD" of a date, as iso() of the page writes week keys
IsoDate(y, m, d) ==
    DigitsOf(y) \o <<45>> \o PadStart2(DigitsOf(m)) \o <<45>> \o PadStart2(DigitsOf(d))

\* z.string().min(10)
ZStringMin10(v, path) ==
    IF v.t # "string" THEN {Issue(path, "invalid_type")}
    ELSE IF Len(v.s) < 10 THEN {Issue(path, "too_small")}
    ELSE {}

\* z.array(z.string()).optional() and z.array(z.string()).default([])
ZArrayOfStringsOptional(v, path) ==
    IF v.t = "undefined" THEN {} ELSE ZArrayOfStrings(v, path)

TodoSchema(v, path) ==
    IF v.t # "object" THEN {Issue(path, "invalid_type")}
    ELSE ZStringOptional(Field(v, "id"), Append(path, "id"))
         \cup ZString(Field(v, "text"), Append(path, "text"))
         \cup ZStringOptional(Field(v, "dueDate"), Append(path, "dueDate"))
         \cup ZBooleanOptional(Field(v, "done"), Append(path, "done"))
         \cup ZArrayOfStringsOptional(Field(v, "assignees"), Append(path, "assignees"))

TodoListSchema(v, path) ==
    IF v.t # "array" THEN {Issue(path, "invalid_type")}
    ELSE UNION {TodoSchema(v.items[i], ItemPath(path, i)) : i \in 1..Len(v.items)}

RowSchema(v, path) ==
    IF v.t # "object" THEN {Issue(path, "invalid_type")}
    ELSE ZString(Field(v, "projectId"), Append(path, "projectId"))
         \cup ZBooleanOptional(Field(v, "bdNeeded"), Append(path, "bdNeeded"))
         \cup ZStringOptional(Field(v, "bdNotes"), Append(path, "bdNotes"))
         \cup TodoListSchema(Field(v, "todos"), Append(path, "todos"))

RowListSchema(v, path) ==
    IF v.t # "array" THEN {Issue(path, "invalid_type")}
    ELSE UNION {RowSchema(v.items[i], ItemPath(path, i)) : i \in 1..Len(v.items)}

PayloadSchema(v, path) ==
    IF v.t # "object" THEN {Issue(path, "invalid_type")}
    ELSE ZStringMin10(Field(v, "weekKey"), Append(path, "weekKey"))
         \cup RowListSchema(Field(v, "rows"), Append(path, "rows"))
         \cup ZArrayOfStringsOptional(Field(v, "order"), Append(path, "order"))

\* the texts of an array of strings
Strings(v) == [i \in 1..Len(v.items) |-> v.items[i].s]

\* parsed.data of a todo: done and assignees take their defaults
ParsedTodo(v) ==
    [id |-> Field(v, "id"),
     text |-> Field(v, "text").s,
     dueDate |-> Field(v, "dueDate"),
     done |-> IF Field(v, "done").t = "undefined" THEN FALSE ELSE Field(v, "done").b,
     assignees |-> IF Field(v, "assignees").t = "undefined" THEN <<>>
                   ELSE Strings(Field(v, "assignees"))]

\* parsed.data of a row
ParsedRow(v) ==
    [projectId |-> Field(v, "projectId").s,
     bdNeeded |-> IF Field(v, "bdNeeded").t = "undefined" THEN FALSE
                  ELSE Field(v, "bdNeeded").b,
     bdNotes |-> IF Field(v, "bdNotes").t = "undefined" THEN ""
                 ELSE Field(v, "bdNotes").s,
     todos |-> [i \in 1..Len(Field(v, "todos").items) |->
                    ParsedTodo(Field(v, "todos").items[i])]]

\* `${projectId}:${weekKey}`
ProjectWeekId(pid, weekKey) == [projectId |-> pid, weekKey |-> weekKey]

\* the rows of ProjectWeek with this projectId and weekKey (at most one: the
\* pair is unique)
ProjectWeeksOf(d, pid, weekKey) ==
    {w \in d.ProjectWeek : w.projectId = pid /\ w.weekKey = weekKey}

\* tx.todo.create and the tx.todoAssignee.create calls of one todo of the
\* project week pwId; rand is what Math.random() gives for a todo without
\* id.  ok is FALSE once a primary key, a unique pair or a foreign key is
\* violated
CreateTodo(st, pwId, t, rand) ==
    LET d == st.db
        todoId == IF t.id.t = "undefined" THEN rand ELSE t.id.s
        assigned == {t.assignees[i] : i \in 1..Len(t.assignees)}
        fine == /\ st.ok
                /\ todoId \notin {x.id : x \in d.Todo}
                /\ assigned \subseteq d.RosterPerson
                /\ Cardinality(assigned) = Len(t.assignees)
    IN  IF ~fine THEN [st EXCEPT !.ok = FALSE]
        ELSE [st EXCEPT !.db =
                [d EXCEPT
                    !.Todo = @ \cup {[id |-> todoId, projectWeekId |-> pwId,
                                      text |-> t.text, dueDate |-> t.dueDate,
                                      done |-> t.done]},
                    !.TodoAssignee = @ \cup {[todoId |-> todoId, personId |-> p] :
                                                p \in assigned}]]

RECURSIVE CreateTodos(_, _, _, _)
CreateTodos(st, pwId, todos, rand) ==
    IF todos = <<>> THEN st
    ELSE CreateTodos(CreateTodo(st, pwId, Head(todos), rand), pwId, Tail(todos), rand)

\* one turn of the loop over rows: the project week is upserted, its todos
\* and their assignees are deleted and the todos of the payload are created
SaveRow(st, weekKey, r, rand) ==
    LET d == st.db
        found == ProjectWeeksOf(d, r.projectId, weekKey)
        pwId == IF found = {} THEN ProjectWeekId(r.projectId, weekKey)
                ELSE (CHOOSE w \in found : TRUE).id
        row == [id |-> pwId, projectId |-> r.projectId, weekKey |-> weekKey,
                bdNeeded |-> r.bdNeeded, bdNotes |-> r.bdNotes]
        gone == {x.id : x \in {y \in d.Todo : y.projectWeekId = pwId}}
        cleared == [d EXCEPT
                      !.ProjectWeek = (@ \ found) \cup {row},
                      !.TodoAssignee = {a \in @ : a.todoId \notin gone},
                      !.Todo = {x \in @ : x.projectWeekId # pwId}]
    IN  IF ~st.ok \/ r.projectId \notin d.Project
        THEN [st EXCEPT !.ok = FALSE]
        ELSE CreateTodos([st EXCEPT !.db = cleared], pwId, r.todos, rand)

RECURSIVE SaveRows(_, _, _, _)
SaveRows(st, weekKey, rows, rand) ==
    IF rows = <<>> THEN st
    ELSE SaveRows(SaveRow(st, weekKey, Head(rows), rand), weekKey, Tail(rows), rand)

\* mutant: the order is upserted whenever the payload has one
SaveOrder_AlsoEmpty(d, weekKey, ord) ==
    IF ord.t = "array"
    THEN [d EXCEPT !.ProjectWeekOrder =
              {o \in @ : o.weekKey # weekKey}
              \cup {[weekKey |-> weekKey, order |-> Strings(ord)]}]
    ELSE d

\* the end of the transaction: a non-empty order is upserted for the week
SaveOrder(d, weekKey, ord) ==
    IF ord.t = "array" /\ Len(ord.items) > 0
    THEN [d EXCEPT !.ProjectWeekOrder =
              {o \in @ : o.weekKey # weekKey}
              \cup {[weekKey |-> weekKey, order |-> Strings(ord)]}]
    ELSE d

\* the JSON null of the order of a response
OrderNull == [isNull |-> TRUE, items |-> <<>>]

OrderOf(items) == [isNull |-> FALSE, items |-> items]

\* a response of the to-do API
TodoResponse(status, error, issues, body) ==
    [status |-> status, error |-> error, issues |-> issues, body |-> body]

NoBody == [weekKey |-> <<>>, order |-> OrderNull, rows |-> {}]

\* PUT /api/todo; the result is <<response, database>>
putTodo(body, rand) ==
    IF PayloadSchema(body, <<>>) # {}
    THEN <<TodoResponse(400, "Invalid payload",
                        [present |-> TRUE, list |-> PayloadSchema(body, <<>>)], NoBody),
           db>>
    ELSE LET weekKey == Field(body, "weekKey").s
             rows == [i \in 1..Len(Field(body, "rows").items) |->
                         ParsedRow(Field(body, "rows").items[i])]
             st == SaveRows([db |-> db, ok |-> TRUE], weekKey, rows, rand)
         IN  IF st.ok
             THEN <<TodoResponse(200, "", NoIssues, NoBody),
                    SaveOrder(st.db, weekKey, Field(body, "order"))>>
             ELSE <<TodoResponse(500, "Failed to save week", NoIssues, NoBody), db>>

\* prisma.projectWeekOrder.findFirst({ where: { weekKey: { lt: weekKey } },
\* orderBy: { weekKey: "desc" } }): the set holding the row found, if any
PriorOrder(d, weekKey) ==
    LET before == {o \in d.ProjectWeekOrder : StrLt(o.weekKey, weekKey)}
    IN  {o \in before : \A q \in before : q.weekKey = o.weekKey \/ StrLt(q.weekKey, o.weekKey)}

\* latestOrder of GET
LatestOrder(d, weekKey) ==
    LET current == {o \in d.ProjectWeekOrder : o.weekKey = weekKey}
        prior == PriorOrder(d, weekKey)
    IN  IF current # {} /\ Len((CHOOSE o \in current : TRUE).order) > 0
        THEN OrderOf((CHOOSE o \in current : TRUE).order)
        ELSE IF prior # {} /\ Len((CHOOSE o \in prior : TRUE).order) > 0
        THEN OrderOf((CHOOSE o \in prior : TRUE).order)
        ELSE OrderNull

\* the rows of a GET response: the project weeks of the week with their
\* todos (findMany has no orderBy: the rows and the todos are kept as sets)
WeekRows(d, weekKey) ==
    {[projectId |-> w.projectId, bdNeeded |-> w.bdNeeded, bdNotes |-> w.bdNotes,
      todos |-> {[id |-> t.id, text |-> t.text, dueDate |-> t.dueDate,
                  done |-> t.done,
                  assignees |-> {a.personId : a \in {x \in d.TodoAssignee :
                                                        x.todoId = t.id}}] :
                    t \in {x \in d.Todo : x.projectWeekId = w.id}}] :
        w \in {x \in d.ProjectWeek : x.weekKey = weekKey}}

\* GET /api/todo?weekKey=...
getTodo(weekKey) ==
    IF weekKey = <<>>
    THEN TodoResponse(400, "weekKey required", NoIssues, NoBody)
    ELSE TodoResponse(200, "", NoIssues,
                      [weekKey |-> weekKey, order |-> LatestOrder(db, weekKey),
                       rows |-> WeekRows(db, weekKey)])

(***************************************************************************)
(* SpecTodo : the to-do API over three weeks.  The database holds the      *)
(* projects "a" and "b" and the person "p1"; the requests name also a      *)
(* project and a person that do not exist, a week key that is too short    *)
(* and orders that are absent, empty or not.                               *)
(***************************************************************************)
Week1 == IsoDate(2025, 1, 6)

Week2 == IsoDate(2025, 1, 13)

Week3 == IsoDate(2025, 1, 20)

WeekKeys == {Week1, Week2, Week3}

\* "2025-1-6": shorter than a week key
ShortWeekKey == DigitsOf(2025) \o <<45, 49, 45, 54>>

TodoJson(id, text, done, assignees) ==
    JObject((IF id = "" THEN <<>> ELSE [id |-> JString(id)])
            @@ [text |-> JString(text), done |-> JBoolean(done),
                assignees |-> JArray([i \in 1..Len(assignees) |-> JString(assignees[i])])])

RowJson(pid, todos) ==
    JObject([projectId |-> JString(pid), bdNeeded |-> JBoolean(FALSE),
             bdNotes |-> JString(""), todos |-> JArray(todos)])

\* the rows of the requests
RowLists ==
    { <<>>,
      <<RowJson("a", <<TodoJson("t1", "call", FALSE, <<"p1">>)>>)>>,
      <<RowJson("a", <<TodoJson("", "mail", TRUE, <<>>)>>)>>,
      <<RowJson("zz", <<>>)>>,
      <<RowJson("b", <<TodoJson("t1", "call", FALSE, <<"p9">>)>>)>> }

\* the orders of the requests: none, empty, and two orders of the projects
OrderJsons ==
    { JUndefined, JArray(<<>>),
      JArray(<<JString("a"), JString("b")>>),
      JArray(<<JString("b"), JString("a")>>) }

TodoBodies ==
    {JObject([weekKey |-> JString(w), rows |-> JArray(rows), order |-> o]) :
        w \in WeekKeys \cup {ShortWeekKey}, rows \in RowLists, o \in OrderJsons}

\* what Math.random().toString(36).slice(2, 9) gives
RandomIds == {"r1"}

InitTodo ==
    /\ pc = "api"
    /\ db = [Project |-> {"a", "b"}, RosterPerson |-> {"p1"},
             ProjectWeek |-> {}, Todo |-> {}, TodoAssignee |-> {},
             ProjectWeekOrder |-> {}]
    /\ request = Req("", "", <<>>, JUndefined)
    /\ response = TodoResponse(0, "", NoIssues, NoBody)
    /\ person = Idle /\ rate = Idle
    /\ people = Idle /\ month = Idle /\ overheadPerHour = Idle /\ stats = Idle
    /\ roster = Idle /\ project = Idle /\ totals = Idle /\ projects = Idle
    /\ filter = Idle /\ rollup = Idle /\ projRollup = Idle
    /\ ymStart = Idle /\ ymIndex = Idle /\ ymResult = Idle /\ bucketYm = Idle
    /\ selectedPeople = Idle /\ heat = Idle /\ deptHeat = Idle /\ globalHours = Idle
    /\ showAddModal = Idle /\ tempSelected = Idle /\ call = Idle
    /\ hydrated = Idle /\ effectDue = Idle /\ saveTimer = Idle /\ timers = Idle /\ upserted = Idle
    /\ weekState = Idle /\ order = Idle /\ sent = Idle
    /\ prevWeek = Idle
    /\ selectedDepartments = Idle

PutTodo ==
    \E body \in TodoBodies, rand \in RandomIds :
        Serve(Req("PUT", "/api/todo", <<>>, body), putTodo(body, rand))

GetTodo ==
    \E weekKey \in WeekKeys \cup {<<>>} :
        Serve(Req("GET", "/api/todo", weekKey, JUndefined), <<getTodo(weekKey), db>>)

NextTodo == PutTodo \/ GetTodo

SpecTodo == InitTodo /\ [][NextTodo]_vars

\* the orders stored for the week and for the weeks before it that are not
\* empty
StoredNonEmpty(d, weekKey) ==
    {o \in d.ProjectWeekOrder :
        /\ Len(o.order) > 0
        /\ o.weekKey = weekKey \/ StrLt(o.weekKey, weekKey)}

\* the order the week shows: that of the latest week at or before it with a
\* non-empty stored order, null without one
InheritedOrder(d, weekKey) ==
    LET S == StoredNonEmpty(d, weekKey)
    IN  IF S = {} THEN OrderNull
        ELSE OrderOf((CHOOSE o \in S :
                        \A q \in S : q.weekKey = o.weekKey
                                     \/ StrLt(q.weekKey, o.weekKey)).order)

\* C22: after any sequence of PUT /api/todo calls, the order answered by
\* GET /api/todo?weekKey=W is the order stored for W when it is not empty,
\* otherwise the latest non-empty order stored for a week before W,
\* otherwise null; and a PUT stores an order for its week only when the
\* order submitted is not empty
C22_OrderInherited ==
    /\ [](pc = "api" /\ request.method = "GET" /\ response.status = 200
            => response.body.order = InheritedOrder(db, request.id))
    /\ [][(request'.method = "PUT" /\ db'.ProjectWeekOrder # db.ProjectWeekOrder)
            => /\ response'.status = 200
               /\ Field(request'.body, "order").t = "array"
               /\ Len(Field(request'.body, "order").items) > 0
               /\ db'.ProjectWeekOrder =
                     {o \in db.ProjectWeekOrder : o.weekKey # Field(request'.body, "weekKey").s}
                     \cup {[weekKey |-> Field(request'.body, "weekKey").s,
                            order |-> Strings(Field(request'.body, "order"))]}]_vars

\* GET for the third week answers the order stored for the first week,
\* while the second week has no order stored and the third has none either
C22_Witness ==
    /\ pc = "api" /\ request.method = "GET" /\ request.id = Week3
    /\ response.status = 200
    /\ response.body.order = OrderOf(<<"b", "a">>)
    /\ {o.weekKey : o \in db.ProjectWeekOrder} = {Week1}
    /\ db.Todo # {}

(***************************************************************************)
(* Claims about the persistence of projects                                *)
(***************************************************************************)
\* the project bodies a write request carries
WrittenProjects(r) ==
    IF r.route = "/api/projects" /\ r.method = "PUT"
    THEN {r.body.items[i] : i \in 1..Len(r.body.items)}
    ELSE {r.body}

\* request r writes projects and response s says that it was done
ProjectsWritten(r, s) ==
    /\ r.method \in {"POST", "PUT"}
    /\ r.route \in {"/api/projects", "/api/projects/[id]"}
    /\ s.status \in {200, 201}

\* the project got has the members and the months of the body p: the same
\* memberIds as a set, and month by month the same id, label, expenses,
\* revenue and personAllocations
RoundTrips(p, got) ==
    LET written == Field(p, "months").items
    IN  /\ got.memberIds = {x.s : x \in SeqRange(Field(p, "memberIds").items)}
        /\ Len(got.months) = Len(written)
        /\ \A i \in 1..Len(written) :
              /\ got.months[i].id = Field(written[i], "id").s
              /\ got.months[i].label = Field(written[i], "label").s
              /\ got.months[i].expenses = Field(written[i], "expenses").x
              /\ got.months[i].revenue = Field(written[i], "revenue").x
              /\ DOMAIN got.months[i].personAllocations
                    = DOMAIN Field(written[i], "personAllocations").f
              /\ \A key \in DOMAIN got.months[i].personAllocations :
                    got.months[i].personAllocations[key]
                        = Field(written[i], "personAllocations").f[key].x

\* C23: after a successful PUT /api/projects/[id], POST /api/projects or
\* bulk PUT /api/projects, GET returns every project of the request with
\* the memberIds of the payload as a set and its months in the payload's
\* order with their ids, labels, expenses, revenue and personAllocations;
\* a PUT to one project id changes what GET returns for no other id; and a
\* write answered with 500 leaves the stored rows as they were
C23_ProjectsRoundTrip ==
    /\ [](pc = "api" /\ ProjectsWritten(request, response)
            => \A p \in WrittenProjects(request) :
                  /\ getProject(db, Field(p, "id").s).status = 200
                  /\ RoundTrips(p, getProject(db, Field(p, "id").s).body))
    /\ [][(request'.method = "PUT" /\ request'.route = "/api/projects/[id]")
            => \A id \in UrlIds \ {request'.id} :
                  getProject(db', id) = getProject(db, id)]_vars
    /\ [][response'.status = 500 => db' = db]_vars

\* project "a" has just been stored by PUT /api/projects/a with its two
\* months, m3 before m2, and its two members, next to project "b", and GET
\* answers for "a" the months in that order
C23_Witness ==
    /\ pc = "api" /\ ProjectsWritten(request, response)
    /\ request.route = "/api/projects/[id]" /\ request.id = "a"
    /\ Len(Field(request.body, "months").items) = 2
    /\ getProject(db, "b").status = 200
    /\ getProject(db, "a").body.months[1].id = "m3"
    /\ getProject(db, "a").body.months[2].id = "m2"
    /\ getProject(db, "a").body.memberIds = {"p1", "p2"}

\* the person ids that are keys of the personAllocations of some month of p
AllocatedIds(p) ==
    UNION {DOMAIN p.months[i].personAllocations : i \in 1..Len(p.months)}

\* C24: starting from a new project, after any sequence of
\* openAddPersonnel, checking or unchecking people in the modal,
\* applyAddPersonnel, removeMember, addMonth and setAlloc, every person id
\* that is a key of some month's personAllocations is in the project's
\* memberIds
C24_AllocationsOfMembersOnly ==
    pc = "page" => AllocatedIds(CurrentProject) \subseteq CurrentProject.memberIds

(***************************************************************************)
(* SpecList : the projects page (addProject, duplicateProject,             *)
(* removeProject) with the detail page of the project of the URL           *)
(* (addMonth).  uuid() and crypto.randomUUID() give ids that nothing in    *)
(* the list has.                                                           *)
(***************************************************************************)
\* the most projects the list is let grow to
MaxProjects == 3

\* the ids of projects and of months that uuid() can give
ProjectIds == 1..MaxProjects

MonthIdPool == 1..(MaxProjects * MaxMonths)

\* an id that is not among used: ids are told apart only by being equal or
\* not, so the least free one of the pool stands for any new id
FreshId(pool, used) == Min(pool \ used)

\* the ids of all months of all projects of the list
MonthIdsInList(projs) ==
    UNION {{projs[i].months[j].id : j \in 1..Len(projs[i].months)} :
           i \in 1..Len(projs)}

\* the copy duplicateProject makes of found: { ...found, id, name, updatedAt }
duplicateOf(found, newId, now) ==
    [found EXCEPT !.id = newId, !.name = "Copy", !.updatedAt = now]

InitList ==
    /\ pc = "page"
    /\ roster = PageRoster
    /\ projects = <<>>
    /\ showAddModal = FALSE
    /\ tempSelected = {}
    /\ call = Called("load", 0)
    /\ person = Idle /\ rate = Idle
    /\ people = Idle /\ month = Idle /\ overheadPerHour = Idle /\ stats = Idle
    /\ project = Idle /\ totals = Idle
    /\ filter = Idle /\ rollup = Idle /\ projRollup = Idle
    /\ ymStart = Idle /\ ymIndex = Idle /\ ymResult = Idle /\ bucketYm = Idle
    /\ selectedPeople = Idle /\ heat = Idle /\ deptHeat = Idle /\ globalHours = Idle
    /\ db = Idle /\ request = Idle /\ response = Idle
    /\ hydrated = Idle /\ effectDue = Idle /\ saveTimer = Idle /\ timers = Idle /\ upserted = Idle
    /\ weekState = Idle /\ order = Idle /\ sent = Idle
    /\ prevWeek = Idle
    /\ selectedDepartments = Idle

\* a handler of the projects page gives setProjects the list next
ListEdit(op, id, next) ==
    /\ projects' = next
    /\ call' = Called(op, id)
    /\ UNCHANGED <<showAddModal, tempSelected,
                   weekState, order, sent,
                   prevWeek,
                   selectedDepartments>>
    /\ UNCHANGED <<pc, person, rate, people, month, overheadPerHour, stats,
                   roster, project, totals, filter, rollup, projRollup,
                   ymStart, ymIndex, ymResult, bucketYm,
                   selectedPeople, heat, deptHeat, globalHours,
                   db, request, response,
                   hydrated, effectDue, saveTimer, timers, upserted,
                   weekState, order, sent,
                   prevWeek,
                   selectedDepartments>>

\* the "New Project" button
addProject ==
    /\ Len(projects) < MaxProjects
    /\ MonthIdPool \ MonthIdsInList(projects) # {}
    /\ \E now \in Times :
          LET id == FreshId(ProjectIds, {projects[i].id : i \in 1..Len(projects)})
              monthId == FreshId(MonthIdPool, MonthIdsInList(projects))
          IN  ListEdit("addProject", id,
                       upsertProject(createProject("Project", id, monthId, StartC, now),
                                     projects, now))

\* the "Delete" button of a project; nothing happens unless confirm() is
\* accepted
removeProject ==
    \E i \in 1..Len(projects), confirmed \in BOOLEAN :
        ListEdit("removeProject", projects[i].id,
                 IF confirmed
                 THEN SelectSeq(projects, LAMBDA p : p.id # projects[i].id)
                 ELSE projects)

\* the "Duplicate" button of a project
duplicateProject ==
    /\ Len(projects) < MaxProjects
    /\ \E i \in 1..Len(projects), now \in Times :
          LET newId == FreshId(ProjectIds, {projects[j].id : j \in 1..Len(projects)})
          IN  ListEdit("duplicateProject", projects[i].id,
                       upsertProject(duplicateOf(projects[i], newId, now), projects, now))

\* addMonth on the detail page of the project of the URL, with an id that
\* no month of the list has
addMonthToListed ==
    /\ ProjectFound
    /\ Len(CurrentProject.months) < MaxMonths
    /\ MonthIdPool \ MonthIdsInList(projects) # {}
    /\ \E now \in Times :
          LET newId == FreshId(MonthIdPool, MonthIdsInList(projects))
          IN  ListEdit("addMonth", projectId,
                       updateProject(addMonthOf(CurrentProject, newId), now))

NextList ==
    \/ addProject
    \/ removeProject
    \/ duplicateProject
    \/ addMonthToListed

SpecList == InitList /\ [][NextList]_vars

\* the months of the list, each by its project's place and its own
MonthPlaces(projs) ==
    UNION {{<<i, j>> : j \in 1..Len(projs[i].months)} : i \in 1..Len(projs)}

\* C25: after any sequence of addProject, duplicateProject, removeProject
\* and addMonth, no two months of the projects list, in the same project or
\* in different ones, have the same id
C25_MonthIdsUnique ==
    pc = "page" =>
        \A a, b \in MonthPlaces(projects) :
            projects[a[1]].months[a[2]].id = projects[b[1]].months[b[2]].id => a = b

(***************************************************************************)
(* SpecTodoPage : the To-Do page of one week.  A handler runs in the       *)
(* closure of the last render, whose weekState and order are those before  *)
(* the handler's own change; scheduleSave builds the payload when it is    *)
(* called and the timeout sends that payload 600 ms later.                 *)
(***************************************************************************)
\* the most todos a row is let grow to
MaxTodos == 1

\* the projects the page has loaded, in the order of the list; their names
\* sort as their ids do
TodoProjects == <<"b", "a">>

\* [...projects].sort((a, b) => a.name.localeCompare(b.name)).map((p) => p.id)
AlphaOrder == <<"a", "b">>

\* the row the page takes for a project without one
EmptyRow(pid) == [projectId |-> pid, bdNeeded |-> FALSE, bdNotes |-> <<>>, todos |-> <<>>]

\* state[pid] ?? the empty row
RowOf(state, pid) == IF pid \in DOMAIN state THEN state[pid] ELSE EmptyRow(pid)

\* { ...prev, [pid]: row }
WithRow(state, pid, row) ==
    [q \in DOMAIN state \cup {pid} |-> IF q = pid THEN row ELSE state[q]]

\* normalizePayloadFrom(state, ord)
normalizePayloadFrom(state, ord) ==
    [weekKey |-> Week2,
     rows |-> [i \in 1..Len(TodoProjects) |-> RowOf(state, TodoProjects[i])],
     order |-> ord]

\* the project ids in the order the page shows the rows: those the order
\* names by their place in it, then the others by name
ShownOrder(ord) ==
    SelectSeq(ord, LAMBDA q : q \in SeqRange(TodoProjects))
    \o SelectSeq(AlphaOrder, LAMBDA q : q \notin SeqRange(ord))

\* next of onRowDrop: fromId is taken out of the shown order and put at the
\* place overId had
MovedOrder(ord, fromId, overId) ==
    LET current == ShownOrder(ord)
        toIdx == CHOOSE i \in 1..Len(current) : current[i] = overId
        without == SelectSeq(current, LAMBDA q : q # fromId)
    IN  SubSeq(without, 1, toIdx - 1) \o <<fromId>> \o SubSeq(without, toIdx, Len(without))

\* scheduleSave in the closure of a render whose state is state and ord:
\* the timeout of saveTimerRef is cleared and one carrying the payload of
\* that render is set
scheduleSaveOf(pending, ref, state, ord) ==
    [timers |-> (pending \ ref) \cup {normalizePayloadFrom(state, ord)},
     saveTimer |-> {normalizePayloadFrom(state, ord)}]

InitTodoPage ==
    /\ pc = "todo"
    /\ weekState = <<>>
    /\ order = <<>>
    /\ saveTimer = {}
    /\ timers = {}
    /\ sent = {}
    /\ call = Called("load", 0)
    /\ person = Idle /\ rate = Idle
    /\ people = Idle /\ month = Idle /\ overheadPerHour = Idle /\ stats = Idle
    /\ roster = Idle /\ project = Idle /\ totals = Idle /\ projects = Idle
    /\ filter = Idle /\ rollup = Idle /\ projRollup = Idle
    /\ ymStart = Idle /\ ymIndex = Idle /\ ymResult = Idle /\ bucketYm = Idle
    /\ selectedPeople = Idle /\ heat = Idle /\ deptHeat = Idle /\ globalHours = Idle
    /\ showAddModal = Idle /\ tempSelected = Idle
    /\ db = Idle /\ request = Idle /\ response = Idle
    /\ hydrated = Idle /\ effectDue = Idle /\ upserted = Idle
    /\ prevWeek = Idle
    /\ selectedDepartments = Idle

\* a handler sets the week state and the order to nextState and nextOrder
\* and calls scheduleSave
TodoEdit(op, nextState, nextOrder) ==
    /\ weekState' = nextState
    /\ order' = nextOrder
    /\ LET r == scheduleSaveOf(timers, saveTimer, weekState, order)
       IN  timers' = r.timers /\ saveTimer' = r.saveTimer
    /\ call' = Called(op, 0)
    /\ UNCHANGED <<sent, pc, person, rate, people, month, overheadPerHour, stats,
                   roster, project, totals, projects, filter, rollup, projRollup,
                   ymStart, ymIndex, ymResult, bucketYm,
                   selectedPeople, heat, deptHeat, globalHours,
                   showAddModal, tempSelected, db, request, response,
                   hydrated, effectDue, upserted,
                   prevWeek,
                   selectedDepartments>>

\* the "BD needed" checkbox of a row
patchRow ==
    \E pid \in SeqRange(TodoProjects), checked \in BOOLEAN :
        TodoEdit("patchRow",
                 WithRow(weekState, pid, [RowOf(weekState, pid) EXCEPT !.bdNeeded = checked]),
                 order)

\* the done checkbox of a todo
replaceRow ==
    \E pid \in DOMAIN weekState, checked \in BOOLEAN :
        \E i \in 1..Len(weekState[pid].todos) :
            TodoEdit("replaceRow",
                     WithRow(weekState, pid,
                             [weekState[pid] EXCEPT !.todos[i].done = checked]),
                     order)

\* the ids of the todos of a week state
TodoIds(state) ==
    UNION {{state[pid].todos[i].id : i \in 1..Len(state[pid].todos)} : pid \in DOMAIN state}

\* crypto.randomUUID(): an id that is not in use, here the least such number
uid(used) == Min((1..(Cardinality(used) + 1)) \ used)

\* the "Add to-do" button of a row
addTodo ==
    \E pid \in SeqRange(TodoProjects) :
        /\ Len(RowOf(weekState, pid).todos) < MaxTodos
        /\ TodoEdit("addTodo",
                    WithRow(weekState, pid,
                            [RowOf(weekState, pid) EXCEPT !.todos =
                                Append(@, [id |-> uid(TodoIds(weekState)), text |-> <<>>,
                                           dueDate |-> JUndefined, assignees |-> <<>>,
                                           done |-> FALSE])]),
                    order)

\* the "Reset order" button
resetOrderAlpha == TodoEdit("resetOrderAlpha", weekState, AlphaOrder)

\* a row is dropped on another row
onRowDrop ==
    \E fromId \in SeqRange(TodoProjects), overId \in SeqRange(TodoProjects) :
        /\ fromId # overId
        /\ TodoEdit("onRowDrop", weekState, MovedOrder(order, fromId, overId))

\* the timeout of scheduleSave fires and sends its payload
sendPayload ==
    /\ \E p \in timers :
          /\ timers' = timers \ {p}
          /\ sent' = {p}
    /\ call' = Called("timeout", 0)
    /\ UNCHANGED <<weekState, order, saveTimer,
                   pc, person, rate, people, month, overheadPerHour, stats,
                   roster, project, totals, projects, filter, rollup, projRollup,
                   ymStart, ymIndex, ymResult, bucketYm,
                   selectedPeople, heat, deptHeat, globalHours,
                   showAddModal, tempSelected, db, request, response,
                   hydrated, effectDue, upserted,
                   prevWeek,
                   selectedDepartments>>

NextTodoPage ==
    \/ patchRow
    \/ replaceRow
    \/ addTodo
    \/ resetOrderAlpha
    \/ onRowDrop
    \/ sendPayload

SpecTodoPage == InitTodoPage /\ [][NextTodoPage]_vars

\* C26: the debounced save of the To-Do page carries the edit that
\* triggered it: when the timeout set by patchRow, replaceRow, addTodo,
\* resetOrderAlpha or a drop fires, the payload it PUTs to /api/todo is that
\* of the week state and the order the page shows after the edit
C26_SaveCarriesEdit ==
    [][call'.op = "timeout" => sent' = {normalizePayloadFrom(weekState', order')}]_vars

(***************************************************************************)
(* SpecCal : storage.ts calendarRollup, the rollup of the dashboard on a   *)
(* continuous axis.  The label of a bucket is left out: it is the ym in    *)
(* the reader's locale.                                                    *)
(***************************************************************************)
\* the buckets built beyond the longest project: i < maxLen + 24
PadMonths == 24

\* projects.reduce((min, p) => p.startMonthISO < min ? p.startMonthISO : min,
\* projects[0].startMonthISO), over the first n projects
RECURSIVE MinStart(_, _)
MinStart(projs, n) ==
    IF n = 0 THEN projs[1].startMonthISO
    ELSE LET min == MinStart(projs, n - 1)
         IN  IF StrLt(projs[n].startMonthISO, min) THEN projs[n].startMonthISO ELSE min

\* Math.max(...projects.map((p) => p.months.length))
MaxLenOf(projs) ==
    CHOOSE n \in {Len(projs[i].months) : i \in 1..Len(projs)} :
        \A i \in 1..Len(projs) : Len(projs[i].months) <= n

\* the zero buckets of the axis, from minStart forward
EmptyBuckets(minStart, n) == [i \in 1..n |-> ZeroRow(calendarRollupYm(minStart, i - 1))]

\* the body of proj.months.forEach((m, idx) => ...): the month is added to
\* the bucket of its ym; a month whose ym has no bucket is skipped
AddMonthToBucket(buckets, proj, idx, ros) ==
    LET bIdx == RowIndex(buckets, calendarRollupYm(proj.startMonthISO, idx - 1))
        s == computeMonthStats(Members(proj, ros), proj.months[idx], proj.overheadPerHour)
        b == buckets[bIdx]
    IN  IF bIdx = 0 THEN buckets
        ELSE [buckets EXCEPT ![bIdx] =
                [ym |-> b.ym,
                 hours |-> JAdd(b.hours, s.hours),
                 labor |-> JAdd(b.labor, s.labor),
                 overhead |-> JAdd(b.overhead, s.overhead),
                 expenses |-> JAdd(b.expenses, s.expenses),
                 revenue |-> JAdd(b.revenue, s.revenue),
                 allIn |-> JAdd(JAdd(JAdd(b.labor, s.labor), JAdd(b.overhead, s.overhead)),
                                JAdd(b.expenses, s.expenses))]]

\* the buckets after the first n months of proj
RECURSIVE AddMonths(_, _, _, _)
AddMonths(buckets, proj, n, ros) ==
    IF n = 0 THEN buckets
    ELSE AddMonthToBucket(AddMonths(buckets, proj, n - 1, ros), proj, n, ros)

\* for (const proj of projects): the buckets after the first k projects
RECURSIVE AddProjects(_, _, _, _)
AddProjects(buckets, projs, k, ros) ==
    IF k = 0 THEN buckets
    ELSE AddMonths(AddProjects(buckets, projs, k - 1, ros), projs[k],
                   Len(projs[k].months), ros)

\* while (buckets.length && last.labor === 0 && last.revenue === 0) buckets.pop()
RECURSIVE TrimTrailing(_)
TrimTrailing(buckets) ==
    IF /\ Len(buckets) > 0
       /\ buckets[Len(buckets)].labor = Zero
       /\ buckets[Len(buckets)].revenue = Zero
    THEN TrimTrailing(SubSeq(buckets, 1, Len(buckets) - 1))
    ELSE buckets

calendarRollup(projs, ros) ==
    IF Len(projs) = 0 THEN <<>>
    ELSE TrimTrailing(
            AddProjects(EmptyBuckets(MinStart(projs, Len(projs)),
                                     MaxLenOf(projs) + PadMonths),
                        projs, Len(projs), ros))

StartEarly == <<50, 48, 50, 50, 45, 49, 50>>   \* "2022-12"

\* the months of the projects: nothing, expenses only, revenue only, or an
\* allocation of person 1 only
CalMonthRows ==
    {[id |-> 1, personAllocations |-> a, expenses |-> Int2Num(e), revenue |-> Int2Num(r)] :
        <<a, e, r>> \in {<<<<>>, 0, 0>>, <<<<>>, 100, 0>>, <<<<>>, 0, 500>>,
                         <<[i \in {1} |-> Int2Num(50)], 0, 0>>}}

CalProjects(i) ==
    [id : {i}, overheadPerHour : {Int2Num(10)}, startMonthISO : {StartEarly, StartC},
     memberIds : {PersonIds}, months : SeqsUpTo(CalMonthRows, MaxMonths)]

InitCal ==
    /\ pc = "input"
    /\ roster = FullRoster
    /\ \E k \in 0..2 : projects \in [1..k -> UNION {CalProjects(i) : i \in 1..2}]
    /\ \A i \in 1..Len(projects) : projects[i].id = i
    /\ rollup = Idle
    /\ person = Idle /\ rate = Idle
    /\ people = Idle /\ month = Idle /\ overheadPerHour = Idle /\ stats = Idle
    /\ project = Idle /\ totals = Idle /\ filter = Idle /\ projRollup = Idle
    /\ ymStart = Idle /\ ymIndex = Idle /\ ymResult = Idle /\ bucketYm = Idle
    /\ selectedPeople = Idle /\ heat = Idle /\ deptHeat = Idle /\ globalHours = Idle
    /\ showAddModal = Idle /\ tempSelected = Idle /\ call = Idle
    /\ db = Idle /\ request = Idle /\ response = Idle
    /\ hydrated = Idle /\ effectDue = Idle /\ saveTimer = Idle /\ timers = Idle /\ upserted = Idle
    /\ weekState = Idle /\ order = Idle /\ sent = Idle
    /\ prevWeek = Idle
    /\ selectedDepartments = Idle

CallCalendarRollup ==
    /\ pc = "input"
    /\ rollup' = calendarRollup(projects, roster)
    /\ pc' = "done"
    /\ UNCHANGED <<person, rate, people, month, overheadPerHour, stats, roster,
                   project, totals, projects, filter, projRollup,
                   ymStart, ymIndex, ymResult, bucketYm,
                   selectedPeople, heat, deptHeat, globalHours,
                   showAddModal, tempSelected, call,
                   db, request, response,
                   hydrated, effectDue, saveTimer, timers, upserted,
                   weekState, order, sent,
                   prevWeek,
                   selectedDepartments>>

NextCal == CallCalendarRollup

SpecCal == InitCal /\ [][NextCal]_vars

ZeroMoney == [revenue |-> Zero, expenses |-> Zero, labor |-> Zero,
              overhead |-> Zero, allIn |-> Zero]

\* the sums of the money fields over the first n buckets
RECURSIVE BucketSums(_, _)
BucketSums(buckets, n) ==
    IF n = 0 THEN ZeroMoney
    ELSE LET acc == BucketSums(buckets, n - 1)
         IN  [revenue |-> JAdd(acc.revenue, buckets[n].revenue),
              expenses |-> JAdd(acc.expenses, buckets[n].expenses),
              labor |-> JAdd(acc.labor, buckets[n].labor),
              overhead |-> JAdd(acc.overhead, buckets[n].overhead),
              allIn |-> JAdd(acc.allIn, buckets[n].allIn)]

\* the sums of the totals of the first k projects, as the dashboard adds them
RECURSIVE ProjectSums(_, _, _)
ProjectSums(projs, ros, k) ==
    IF k = 0 THEN ZeroMoney
    ELSE LET acc == ProjectSums(projs, ros, k - 1)
             t == computeProjectTotals(projs[k], ros)
         IN  [revenue |-> JAdd(acc.revenue, t.revenue),
              expenses |-> JAdd(acc.expenses, t.expenses),
              labor |-> JAdd(acc.labor, t.laborCost),
              overhead |-> JAdd(acc.overhead, t.overheadCost),
              allIn |-> JAdd(acc.allIn, t.allIn)]

\* C27: calendarRollup loses no project-month: the sums of revenue,
\* expenses, labor, overhead and allIn over the returned buckets are the
\* sums of the same fields of computeProjectTotals over all projects
C27_RollupLosesNothing ==
    (pc = "done" /\ Len(projects) > 0) =>
        BucketSums(rollup, Len(rollup)) = ProjectSums(projects, roster, Len(projects))

\* the step serves PUT /api/roster with a payload that passes the schema and
\* names no id twice, while a roster person is referenced by a project
\* member, an allocation or a to-do assignee
RosterSavedInUse ==
    /\ request'.method = "PUT" /\ request'.route = "/api/roster"
    /\ RosterListSchema(request'.body, <<>>) = {}
    /\ \A i, j \in 1..Len(request'.body.items) :
          Field(request'.body.items[i], "id").s = Field(request'.body.items[j], "id").s
              => i = j
    /\ PeopleInUse(db) # {}

\* C28: the bulk roster save succeeds while people are in use: a valid
\* PUT /api/roster is answered 200 and makes the stored roster equal to the
\* payload also when roster people are referenced, and it leaves the
\* members and the allocations of every project unchanged
C28_RosterSavedWhileInUse ==
    [][RosterSavedInUse =>
          /\ response'.status = 200
          /\ db'.roster = {RosterRowOf(request'.body.items[i]) :
                              i \in 1..Len(request'.body.items)}
          /\ db'.members = db.members
          /\ db'.allocations = db.allocations]_vars

\* what the model shows instead: such a save is always answered 500 and
\* leaves the database as it was
RosterSaveRefusedInUse ==
    [][RosterSavedInUse => (response'.status = 500 /\ db' = db)]_vars

(***************************************************************************)
(* SpecCopy : copyUnfinishedFromPrevWeek of the To-Do page.  Texts and ids *)
(* of people are sequences of character codes; a dueDate is JUndefined or  *)
(* a JString.  The fetch of the previous week and the rest of the handler  *)
(* are taken as one step.                                                  *)
(***************************************************************************)
\* String.prototype.trim: the spaces at both ends are dropped
RECURSIVE TrimStart(_)
TrimStart(s) == IF Len(s) > 0 /\ s[1] = 32 THEN TrimStart(Tail(s)) ELSE s

RECURSIVE TrimEnd(_)
TrimEnd(s) ==
    IF Len(s) > 0 /\ s[Len(s)] = 32 THEN TrimEnd(SubSeq(s, 1, Len(s) - 1)) ELSE s

Trim(s) == TrimEnd(TrimStart(s))

\* String.prototype.toLowerCase on the letters A to Z
ToLowerCase(s) == [i \in 1..Len(s) |-> IF s[i] \in 65..90 THEN s[i] + 32 ELSE s[i]]

\* [...q].sort(): the strings of q in ascending order of their code units
SortStrings(q) ==
    CHOOSE r \in [1..Len(q) -> SeqRange(q)] :
        /\ \A x \in SeqRange(q) :
              Cardinality({i \in 1..Len(q) : r[i] = x})
                  = Cardinality({i \in 1..Len(q) : q[i] = x})
        /\ \A i \in 1..(Len(q) - 1) : ~StrLt(r[i + 1], r[i])

\* q.join(sep)
RECURSIVE Join(_, _)
Join(q, sep) ==
    IF Len(q) = 0 THEN <<>>
    ELSE IF Len(q) = 1 THEN q[1]
    ELSE q[1] \o sep \o Join(Tail(q), sep)

\* t.dueDate ?? ""
DueDateOrEmpty(t) == IF t.dueDate.t = "undefined" THEN <<>> ELSE t.dueDate.s

\* mutant: the key is built from the text as it was typed
keyOf_AsTyped(t) ==
    t.text \o <<124>> \o DueDateOrEmpty(t) \o <<124>> \o Join(SortStrings(t.assignees), <<44>>)

\* keyOf: `${text.trim().toLowerCase()}|${dueDate ?? ""}|${sorted assignees joined by ","}`
keyOf(t) ==
    ToLowerCase(Trim(t.text)) \o <<124>> \o DueDateOrEmpty(t) \o <<124>>
        \o Join(SortStrings(t.assignees), <<44>>)

\* prevRow.todos.filter((t) => !t.done && t.text.trim() !== "")
PendingOf(prevRow) == SelectSeq(prevRow.todos, LAMBDA t : ~t.done /\ Trim(t.text) # <<>>)

\* the pending todos whose key is not among those of the current row
NotInRow(pending, currRow) ==
    SelectSeq(pending,
              LAMBDA t : keyOf(t) \notin {keyOf(currRow.todos[i]) : i \in 1..Len(currRow.todos)})

\* n calls of crypto.randomUUID(): ids that are not in use and differ
RECURSIVE uids(_, _)
uids(used, n) ==
    IF n = 0 THEN <<>>
    ELSE LET q == uids(used, n - 1) IN Append(q, uid(used \cup SeqRange(q)))

\* newOnes: the copies, each with an id of its own and done: false
NewOnes(kept, used) ==
    [i \in 1..Len(kept) |->
        [id |-> uids(used, Len(kept))[i],
         text |-> kept[i].text, dueDate |-> kept[i].dueDate,
         assignees |-> kept[i].assignees, done |-> FALSE]]

\* nextState after the loop went through the first k projects
RECURSIVE CopyLoop(_, _, _)
CopyLoop(state, prevRows, k) ==
    IF k = 0 THEN state
    ELSE LET nextState == CopyLoop(state, prevRows, k - 1)
             pid == TodoProjects[k]
         IN  IF pid \notin DOMAIN prevRows THEN nextState
             ELSE LET currRow == RowOf(nextState, pid)
                      kept == NotInRow(PendingOf(prevRows[pid]), currRow)
                  IN  IF Len(kept) = 0 THEN nextState
                      ELSE WithRow(nextState, pid,
                                   [currRow EXCEPT !.todos = @ \o
                                       NewOnes(kept, TodoIds(nextState) \cup TodoIds(prevRows))])

(***************************************************************************)
(* inputs of SpecCopy                                                      *)
(***************************************************************************)
P1 == <<112, 49>>   \* "p1"

P2 == <<112, 50>>   \* "p2"

TodoOf(text, dueDate, assignees, done) ==
    [id |-> 0, text |-> text, dueDate |-> dueDate, assignees |-> assignees, done |-> done]

\* "Call" and " call " open, "Call" done, a blank text, "Call" with a date
\* for p2 and p1 in both orders, and "Mail"
CopyTodos ==
    {TodoOf(<<67, 97, 108, 108>>, JUndefined, <<>>, FALSE),
     TodoOf(<<32, 99, 97, 108, 108, 32>>, JUndefined, <<>>, FALSE),
     TodoOf(<<67, 97, 108, 108>>, JUndefined, <<>>, TRUE),
     TodoOf(<<32>>, JUndefined, <<>>, FALSE),
     TodoOf(<<67, 97, 108, 108>>, JString(Week1), <<P2, P1>>, FALSE),
     TodoOf(<<67, 97, 108, 108>>, JString(Week1), <<P1, P2>>, FALSE),
     TodoOf(<<77, 97, 105, 108>>, JUndefined, <<>>, FALSE)}

\* the todos get the ids base + 1, base + 2, ...
WithIds(todos, base) == [i \in 1..Len(todos) |-> [todos[i] EXCEPT !.id = base + i]]

\* the week states with a row of at most n todos for project "a" or none,
\* and a fixed row for project "b" or none
CopyStates(n, base) ==
    {[pid \in S |->
        [EmptyRow(pid) EXCEPT !.todos =
            IF pid = "a" THEN WithIds(todos, base)
            ELSE WithIds(<<TodoOf(<<77, 97, 105, 108>>, JUndefined, <<>>, FALSE)>>,
                         base + n)]] :
        S \in SUBSET {"a", "b"}, todos \in SeqsUpTo(CopyTodos, n)}

InitCopy ==
    /\ pc = "todo"
    /\ weekState \in {st \in CopyStates(MaxTodos, 0) : "b" \notin DOMAIN st}
    /\ prevWeek \in {st \in CopyStates(MaxTodos + 1, MaxTodos + 1) : "a" \in DOMAIN st}
    /\ order = <<>>
    /\ saveTimer = {}
    /\ timers = {}
    /\ sent = {}
    /\ call = Called("load", 0)
    /\ person = Idle /\ rate = Idle
    /\ people = Idle /\ month = Idle /\ overheadPerHour = Idle /\ stats = Idle
    /\ roster = Idle /\ project = Idle /\ totals = Idle /\ projects = Idle
    /\ filter = Idle /\ rollup = Idle /\ projRollup = Idle
    /\ ymStart = Idle /\ ymIndex = Idle /\ ymResult = Idle /\ bucketYm = Idle
    /\ selectedPeople = Idle /\ heat = Idle /\ deptHeat = Idle /\ globalHours = Idle
    /\ showAddModal = Idle /\ tempSelected = Idle
    /\ db = Idle /\ request = Idle /\ response = Idle
    /\ hydrated = Idle /\ effectDue = Idle /\ upserted = Idle
    /\ selectedDepartments = Idle

\* the "Copy unfinished" button: when something was copied the week state
\* is set and a save is scheduled, otherwise only a toast is shown
copyUnfinishedFromPrevWeek ==
    LET nextState == CopyLoop(weekState, prevWeek, Len(TodoProjects))
    IN  IF nextState # weekState
        THEN TodoEdit("copyUnfinishedFromPrevWeek", nextState, order)
        ELSE /\ call' = Called("copyUnfinishedFromPrevWeek", 0)
             /\ UNCHANGED <<weekState, order, saveTimer, timers, sent, prevWeek,
                            pc, person, rate, people, month, overheadPerHour, stats,
                            roster, project, totals, projects, filter, rollup, projRollup,
                            ymStart, ymIndex, ymResult, bucketYm,
                            selectedPeople, heat, deptHeat, globalHours,
                            showAddModal, tempSelected, db, request, response,
                            hydrated, effectDue, upserted,
                   selectedDepartments>>

NextCopy == copyUnfinishedFromPrevWeek

SpecCopy == InitCopy /\ [][NextCopy]_vars

\* the key as the claim words it: trimmed lower-case text, dueDate, assignees
KeyTriple(t) == <<ToLowerCase(Trim(t.text)), t.dueDate, SeqRange(t.assignees)>>

\* the todos of the previous week's row of pid that are to be copied into
\* the row todos
ToCopy(pid, todos) ==
    IF pid \notin DOMAIN prevWeek THEN <<>>
    ELSE SelectSeq(prevWeek[pid].todos,
                   LAMBDA t : /\ ~t.done
                              /\ Trim(t.text) # <<>>
                              /\ KeyTriple(t) \notin {KeyTriple(todos[i]) : i \in 1..Len(todos)})

\* row after is row before with the copies of exp appended: same text,
\* dueDate and assignees, done false, ids that were not in use and differ
AppendedTo(before, after, exp, used) ==
    /\ Len(after) = Len(before) + Len(exp)
    /\ SubSeq(after, 1, Len(before)) = before
    /\ \A i \in 1..Len(exp) :
          LET t == after[Len(before) + i]
          IN  /\ t.text = exp[i].text
              /\ t.dueDate = exp[i].dueDate
              /\ t.assignees = exp[i].assignees
              /\ t.done = FALSE
              /\ t.id \notin used
    /\ \A i, j \in 1..Len(after) : after[i].id = after[j].id => i = j

\* C29: copyUnfinishedFromPrevWeek appends to each project's current-week
\* row exactly the previous week's todos that are not done, have non-blank
\* text and whose key is not in the current row, each with a fresh id and
\* done = false; the existing todos are kept, and a second invocation adds
\* nothing
C29_CopySelective ==
    /\ [][call'.op = "copyUnfinishedFromPrevWeek" =>
             \A pid \in SeqRange(TodoProjects) :
                 /\ AppendedTo(RowOf(weekState, pid).todos, RowOf(weekState', pid).todos,
                               ToCopy(pid, RowOf(weekState, pid).todos),
                               TodoIds(weekState) \cup TodoIds(prevWeek))
                 /\ RowOf(weekState', pid).bdNeeded = RowOf(weekState, pid).bdNeeded
                 /\ RowOf(weekState', pid).bdNotes = RowOf(weekState, pid).bdNotes]_vars
    /\ [](call.op = "copyUnfinishedFromPrevWeek" =>
             CopyLoop(weekState, prevWeek, Len(TodoProjects)) = weekState)

\* a copy took one todo of two pending ones of the previous week into a row
\* that had the other's key, and one into a row that did not exist
C29_Witness ==
    /\ call.op = "copyUnfinishedFromPrevWeek"
    /\ timers # {}
    /\ Len(PendingOf(prevWeek["a"])) = 2
    /\ Len(weekState["a"].todos) = 2
    /\ "b" \in DOMAIN prevWeek
    /\ Len(weekState["b"].todos) = 1

(***************************************************************************)
(* SpecFilter : the people and department filters of the resourcing page.  *)
(* Here selectedPeople is the page's state, a set of ids; every project    *)
(* and every project status is selected and no date bound is set.  The     *)
(* heat map is computed anew with every change of a filter.                *)
(***************************************************************************)
AllDepartments ==
    {"C-Suite", "BD", "Marketing", "Product", "Engineering", "Ops", "Software",
     "Admin", "Other"}

\* filteredPeople: null when nobody is selected, else the ids of the
\* selected people of the selected departments
filteredPeople(ros, selPeople, selDepartments) ==
    IF selPeople = {} THEN NoSelection
    ELSE Selection({ros[i].id : i \in {j \in 1..Len(ros) :
                                         /\ ros[j].department \in selDepartments
                                         /\ ros[j].id \in selPeople}})

\* heat, for the filters given
heatOf(selPeople, selDepartments) ==
    buildUtilizationMatrixWithProjects(projects, roster,
        filteredPeople(roster, selPeople, selDepartments), NoFilter)

InitFilter ==
    /\ pc = "resourcing"
    /\ roster \in UtilRosters
    /\ \E p1 \in UtilFirstProjects, p2 \in UtilSecondProjects :
          /\ Len(p1.months) = MaxMonths /\ p1.months[1].revenue # Zero
          /\ Len(p2.months) = 1 /\ p2.startMonthISO = StartC /\ p2.memberIds = {1, 2}
          /\ projects = <<p1, p2>>
    /\ filter = NoFilter
    /\ selectedPeople = {roster[i].id : i \in 1..Len(roster)}
    /\ selectedDepartments = AllDepartments
    /\ heat = heatOf(selectedPeople, selectedDepartments)
    /\ call = Called("load", 0)
    /\ deptHeat = Idle /\ globalHours = Idle
    /\ rollup = Idle /\ projRollup = Idle /\ totals = Idle /\ project = Idle
    /\ person = Idle /\ rate = Idle
    /\ people = Idle /\ month = Idle /\ overheadPerHour = Idle /\ stats = Idle
    /\ ymStart = Idle /\ ymIndex = Idle /\ ymResult = Idle /\ bucketYm = Idle
    /\ showAddModal = Idle /\ tempSelected = Idle
    /\ db = Idle /\ request = Idle /\ response = Idle
    /\ hydrated = Idle /\ effectDue = Idle /\ saveTimer = Idle /\ timers = Idle /\ upserted = Idle
    /\ weekState = Idle /\ order = Idle /\ sent = Idle
    /\ prevWeek = Idle

\* a handler sets the two selections; the page renders the heat map again
SetFilters(op, nextPeople, nextDepartments) ==
    /\ selectedPeople' = nextPeople
    /\ selectedDepartments' = nextDepartments
    /\ heat' = heatOf(nextPeople, nextDepartments)
    /\ call' = Called(op, 0)
    /\ UNCHANGED <<pc, person, rate, people, month, overheadPerHour, stats, roster,
                   project, totals, projects, filter, rollup, projRollup,
                   ymStart, ymIndex, ymResult, bucketYm,
                   deptHeat, globalHours,
                   showAddModal, tempSelected,
                   db, request, response,
                   hydrated, effectDue, saveTimer, timers, upserted,
                   weekState, order, sent, prevWeek>>

togglePerson ==
    \E i \in 1..Len(roster), on \in BOOLEAN :
        SetFilters("togglePerson",
                   IF on THEN selectedPeople \cup {roster[i].id}
                   ELSE selectedPeople \ {roster[i].id},
                   selectedDepartments)

selectAllPeople ==
    SetFilters("selectAllPeople", {roster[i].id : i \in 1..Len(roster)}, selectedDepartments)

clearPeople == SetFilters("clearPeople", {}, selectedDepartments)

\* the checkboxes of three of the departments
toggleDepartment ==
    \E department \in {"Engineering", "Ops", "Admin"}, on \in BOOLEAN :
        SetFilters("toggleDepartment", selectedPeople,
                   IF on THEN selectedDepartments \cup {department}
                   ELSE selectedDepartments \ {department})

selectAllDepartments == SetFilters("selectAllDepartments", selectedPeople, AllDepartments)

clearDepartments == SetFilters("clearDepartments", selectedPeople, {})

NextFilter ==
    \/ togglePerson
    \/ selectAllPeople
    \/ clearPeople
    \/ toggleDepartment
    \/ selectAllDepartments
    \/ clearDepartments

SpecFilter == InitFilter /\ [][NextFilter]_vars

\* C30: the filters of the resourcing page only narrow the matrix: every
\* person row of the utilization matrix belongs to a person who is in
\* selectedPeople and whose department is in selectedDepartments
C30_FiltersNarrow ==
    pc = "resourcing" =>
        \A r \in 1..Len(heat.rows) :
            /\ heat.rows[r].person.id \in selectedPeople
            /\ heat.rows[r].person.department \in selectedDepartments

====
